---- MODULE Spec2Model ----
(***************************************************************************)
(* A model of the pesapal-rdbms core: the schema/row model, the storage    *)
(* engine with its gob persistence, the B-tree index with its manager and  *)
(* the statement executor.                                                 *)
(*                                                                         *)
(* Conventions.  Go slices are sequences, so positions are 1-based here    *)
(* where the code is 0-based; GetColumnIndex returns 0 (not -1) for an     *)
(* absent column.  A Go error is the name of its kind, "" standing for a   *)
(* nil error.  A Go interface{} value is a record [k, n, s]: k the dynamic *)
(* type ("nil" for a nil interface), n the payload of a number or boolean, *)
(* s the payload of a string; two values are == in Go exactly when the     *)
(* records are equal.                                                      *)
(***************************************************************************)
EXTENDS Integers, Sequences, FiniteSets, TLC

VARIABLES
    tables,    \* Storage.tables: table name -> Table
    indexes,   \* Manager.indexes: table name -> column name -> BTree
    disk,      \* the data directory: table name -> contents of <name>.tbl
    res,       \* what the last call or statement returned
    bt,        \* a BTree used on its own: its root node
    btModel,   \* the (key, position) pairs Insert accepted and Delete did not report removed
    btRes,     \* what the last B-tree call returned
    pc,        \* goroutine -> where it stands in the call it is making
    mu,        \* Table.mu of table "t": the goroutines that hold it
    local,     \* goroutine -> the arguments, locals and results of its calls
    out        \* the arguments and the result of the last query or comparison

vars == <<tables, indexes, disk, res, bt, btModel, btRes, pc, mu, local, out>>

-----------------------------------------------------------------------------
(* Bounds of the model *)

MaxRows == 2        \* rows a table may hold before InsertRow is no longer tried

-----------------------------------------------------------------------------
(* Values *)

Nil == [k |-> "nil", n |-> 0, s |-> ""]
IntV(i) == [k |-> "int", n |-> i, s |-> ""]
StrV(str) == [k |-> "string", n |-> 0, s |-> str]
BoolV(b) == [k |-> "bool", n |-> IF b THEN 1 ELSE 0, s |-> ""]
FloatV(f) == [k |-> "float64", n |-> f, s |-> ""]
Float32V(f) == [k |-> "float32", n |-> f, s |-> ""]

\* Go's order on the strings the model uses (byte-wise lexicographic)
StringPool == <<"", "x", "y", "yyy">>

StrRank(str) == CHOOSE i \in 1..Len(StringPool) : StringPool[i] = str

StrLess(a, b) == StrRank(a) < StrRank(b)

-----------------------------------------------------------------------------
(* Schema and row model *)

TypeInteger == 0
TypeVarchar == 1
TypeBoolean == 2
TypeFloat == 3

Column(name, dataType, size, pk, unique, notNull) ==
    [Name |-> name, DataType |-> dataType, Size |-> size,
     PrimaryKey |-> pk, Unique |-> unique, NotNull |-> notNull]

NewSchema(tableName) ==
    [TableName |-> tableName, Columns |-> <<>>, PrimaryKeys |-> <<>>, UniqueKeys |-> <<>>]

AddColumn(s, col) ==
    [s EXCEPT !.Columns = Append(@, col),
              !.PrimaryKeys = IF col.PrimaryKey THEN Append(@, col.Name) ELSE @,
              !.UniqueKeys = IF col.Unique THEN Append(@, col.Name) ELSE @]

\* the position of the first column called name, 0 when there is none
GetColumnIndex(s, name) ==
    IF \E i \in 1..Len(s.Columns) : s.Columns[i].Name = name
    THEN CHOOSE i \in 1..Len(s.Columns) :
            /\ s.Columns[i].Name = name
            /\ \A j \in 1..(i - 1) : s.Columns[j].Name # name
    ELSE 0

\* ValidateValue as it would be without the length limit of VARCHAR columns
ValidateValueAnyLength(value, col) ==
    IF value = Nil
    THEN IF col.NotNull THEN "NullNotAllowed" ELSE ""
    ELSE IF col.DataType = TypeInteger
         THEN IF value.k = "int" THEN "" ELSE "TypeMismatch"
    ELSE IF col.DataType = TypeVarchar
         THEN IF value.k = "string" THEN "" ELSE "TypeMismatch"
    ELSE IF col.DataType = TypeBoolean
         THEN IF value.k = "bool" THEN "" ELSE "TypeMismatch"
    ELSE IF col.DataType = TypeFloat
         THEN IF value.k \in {"float32", "float64"} THEN "" ELSE "TypeMismatch"
    ELSE ""

\* ValidateValue as it would be if a FLOAT column took integers as well
ValidateValueCoercing(value, col) ==
    IF col.DataType = TypeFloat /\ value.k = "int" THEN ""
    ELSE ValidateValueAnyLength(value, col)

ValidateValue(value, col) ==
    IF value = Nil
    THEN IF col.NotNull THEN "NullNotAllowed" ELSE ""
    ELSE IF col.DataType = TypeInteger
         THEN IF value.k = "int" THEN "" ELSE "TypeMismatch"
    ELSE IF col.DataType = TypeVarchar
         THEN IF value.k = "string"
              THEN IF col.Size > 0 /\ Len(value.s) > col.Size THEN "TypeMismatch" ELSE ""
              ELSE "TypeMismatch"
    ELSE IF col.DataType = TypeBoolean
         THEN IF value.k = "bool" THEN "" ELSE "TypeMismatch"
    ELSE IF col.DataType = TypeFloat
         THEN IF value.k \in {"float32", "float64"} THEN "" ELSE "TypeMismatch"
    ELSE ""

-----------------------------------------------------------------------------
(* B-tree index *)

btreeOrder == 4

Node(keys, values, children, isLeaf) ==
    [keys |-> keys, values |-> values, children |-> children, isLeaf |-> isLeaf]

NewBTree == Node(<<>>, <<>>, <<>>, TRUE)

\* compare: -1, 0 or 1 for two ints, two strings or two float64s, and 0 for
\* every other pair of operands
compare(a, b) ==
    IF a.k = "int" /\ b.k = "int"
    THEN IF a.n < b.n THEN -1 ELSE IF a.n > b.n THEN 1 ELSE 0
    ELSE IF a.k = "string" /\ b.k = "string"
    THEN IF StrLess(a.s, b.s) THEN -1 ELSE IF StrLess(b.s, a.s) THEN 1 ELSE 0
    ELSE IF a.k = "float64" /\ b.k = "float64"
    THEN IF a.n < b.n THEN -1 ELSE IF a.n > b.n THEN 1 ELSE 0
    ELSE 0

\* where the upward scan "for i < len(keys) && compare(key, keys[i]) > 0"
\* stops: the first position whose key is not below key, Len(keys) + 1 if none
RECURSIVE ScanUp(_, _, _)
ScanUp(keys, key, i) ==
    IF i <= Len(keys) /\ compare(key, keys[i]) > 0 THEN ScanUp(keys, key, i + 1) ELSE i

\* where the downward scan "for i >= 0 && compare(key, keys[i]) < 0" stops:
\* the last position whose key is not above key, 0 if none
RECURSIVE ScanDown(_, _, _)
ScanDown(keys, key, i) ==
    IF i >= 1 /\ compare(key, keys[i]) < 0 THEN ScanDown(keys, key, i - 1) ELSE i

\* searchNode as it would be if it never went down to a child
searchNodeHere(node, key) ==
    LET i == ScanUp(node.keys, key, 1)
    IN IF i <= Len(node.keys) /\ compare(key, node.keys[i]) = 0
       THEN [value |-> node.values[i], found |-> TRUE]
       ELSE [value |-> -1, found |-> FALSE]

RECURSIVE searchNode(_, _)
searchNode(node, key) ==
    LET i == ScanUp(node.keys, key, 1)
    IN IF i <= Len(node.keys) /\ compare(key, node.keys[i]) = 0
       THEN [value |-> node.values[i], found |-> TRUE]
       ELSE IF node.isLeaf THEN [value |-> -1, found |-> FALSE]
       ELSE searchNode(node.children[i], key)

\* the sequence s with x put in after position i
InsertAt(s, i, x) == SubSeq(s, 1, i) \o <<x>> \o SubSeq(s, i + 1, Len(s))

RemoveAt(s, i) == SubSeq(s, 1, i - 1) \o SubSeq(s, i + 1, Len(s))

\* splitChild as it would be if the parent received, with the middle key, the
\* row index of the key before it
splitChildShiftingValue(parent, index) ==
    LET fullChild == parent.children[index]
        mid == btreeOrder
        newChild == Node(SubSeq(fullChild.keys, mid + 1, Len(fullChild.keys)),
                         SubSeq(fullChild.values, mid + 1, Len(fullChild.values)),
                         IF fullChild.isLeaf THEN <<>>
                         ELSE SubSeq(fullChild.children, mid + 1, Len(fullChild.children)),
                         fullChild.isLeaf)
        truncated == Node(SubSeq(fullChild.keys, 1, mid - 1),
                          SubSeq(fullChild.values, 1, mid - 1),
                          IF fullChild.isLeaf THEN <<>>
                          ELSE SubSeq(fullChild.children, 1, mid),
                          fullChild.isLeaf)
    IN Node(InsertAt(parent.keys, index - 1, fullChild.keys[mid]),
            InsertAt(parent.values, index - 1, fullChild.values[mid - 1]),
            InsertAt([parent.children EXCEPT ![index] = truncated], index, newChild),
            parent.isLeaf)

\* splitChild as it would be if it split one key before the middle
splitChildBeforeMiddle(parent, index) ==
    LET fullChild == parent.children[index]
        mid == btreeOrder - 1
        newChild == Node(SubSeq(fullChild.keys, mid + 1, Len(fullChild.keys)),
                         SubSeq(fullChild.values, mid + 1, Len(fullChild.values)),
                         IF fullChild.isLeaf THEN <<>>
                         ELSE SubSeq(fullChild.children, mid + 1, Len(fullChild.children)),
                         fullChild.isLeaf)
        truncated == Node(SubSeq(fullChild.keys, 1, mid - 1),
                          SubSeq(fullChild.values, 1, mid - 1),
                          IF fullChild.isLeaf THEN <<>>
                          ELSE SubSeq(fullChild.children, 1, mid),
                          fullChild.isLeaf)
    IN Node(InsertAt(parent.keys, index - 1, fullChild.keys[mid]),
            InsertAt(parent.values, index - 1, fullChild.values[mid]),
            InsertAt([parent.children EXCEPT ![index] = truncated], index, newChild),
            parent.isLeaf)

\* splitChild: the child at index gives its middle key to the parent and the
\* keys (and children) after it to a new right sibling
splitChild(parent, index) ==
    LET fullChild == parent.children[index]
        mid == btreeOrder
        newChild == Node(SubSeq(fullChild.keys, mid + 1, Len(fullChild.keys)),
                         SubSeq(fullChild.values, mid + 1, Len(fullChild.values)),
                         IF fullChild.isLeaf THEN <<>>
                         ELSE SubSeq(fullChild.children, mid + 1, Len(fullChild.children)),
                         fullChild.isLeaf)
        truncated == Node(SubSeq(fullChild.keys, 1, mid - 1),
                          SubSeq(fullChild.values, 1, mid - 1),
                          IF fullChild.isLeaf THEN <<>>
                          ELSE SubSeq(fullChild.children, 1, mid),
                          fullChild.isLeaf)
    IN Node(InsertAt(parent.keys, index - 1, fullChild.keys[mid]),
            InsertAt(parent.values, index - 1, fullChild.values[mid]),
            InsertAt([parent.children EXCEPT ![index] = truncated], index, newChild),
            parent.isLeaf)

RECURSIVE insertNonFull(_, _, _)
insertNonFull(node, key, rowIndex) ==
    LET i == ScanDown(node.keys, key, Len(node.keys))
    IN IF node.isLeaf
       THEN Node(InsertAt(node.keys, i, key), InsertAt(node.values, i, rowIndex),
                 node.children, TRUE)
       ELSE LET split == Len(node.children[i + 1].keys) >= 2 * btreeOrder - 1
                node2 == IF split THEN splitChild(node, i + 1) ELSE node
                c == IF split /\ compare(key, node2.keys[i + 1]) > 0 THEN i + 2 ELSE i + 1
            IN [node2 EXCEPT !.children[c] = insertNonFull(node2.children[c], key, rowIndex)]

\* BTree.Insert on the tree with this root: the new root and the error
Insert(root, key, rowIndex) ==
    IF searchNode(root, key).found THEN [root |-> root, err |-> "DuplicateKey"]
    ELSE LET root2 == IF Len(root.keys) >= 2 * btreeOrder - 1
                      THEN splitChild(Node(<<>>, <<>>, <<root>>, FALSE), 1)
                      ELSE root
         IN [root |-> insertNonFull(root2, key, rowIndex), err |-> ""]

Search(root, key) == searchNode(root, key)

\* deleteNode: a key found in a leaf is removed; a key found in an internal
\* node is reported deleted and left where it is
RECURSIVE deleteNode(_, _)
deleteNode(node, key) ==
    LET i == ScanUp(node.keys, key, 1)
    IN IF i <= Len(node.keys) /\ compare(key, node.keys[i]) = 0
       THEN IF node.isLeaf
            THEN [node |-> [node EXCEPT !.keys = RemoveAt(@, i), !.values = RemoveAt(@, i)],
                  ok |-> TRUE]
            ELSE [node |-> node, ok |-> TRUE]
       ELSE IF node.isLeaf THEN [node |-> node, ok |-> FALSE]
       ELSE LET d == deleteNode(node.children[i], key)
            IN [node |-> [node EXCEPT !.children[i] = d.node], ok |-> d.ok]

Delete(root, key) == deleteNode(root, key)

\* traverse: the entries <<key, row index>> of the subtree in order
RECURSIVE traverse(_)
RECURSIVE traverseFrom(_, _)
traverseFrom(node, i) ==
    IF i > Len(node.keys)
    THEN IF node.isLeaf THEN <<>> ELSE traverse(node.children[Len(node.keys) + 1])
    ELSE (IF node.isLeaf THEN <<>> ELSE traverse(node.children[i]))
         \o << <<node.keys[i], node.values[i]>> >>
         \o traverseFrom(node, i + 1)

traverse(node) == traverseFrom(node, 1)

GetAll(root) == traverse(root)

-----------------------------------------------------------------------------
(* Index manager *)

NewManager == <<>>

HasTableIndexes(idx, tableName) == tableName \in DOMAIN idx

HasIndex(idx, tableName, columnName) ==
    /\ tableName \in DOMAIN idx
    /\ columnName \in DOMAIN idx[tableName]

\* the manager's map with m as the column map of tableName
WithTableIndexes(idx, tableName, m) ==
    [tn \in DOMAIN idx \cup {tableName} |-> IF tn = tableName THEN m ELSE idx[tn]]

\* CreateIndex first makes the table's column map, then refuses a column
\* that has a tree already; the result is the manager's map and the error
CreateIndex(idx, tableName, columnName) ==
    LET old == IF HasTableIndexes(idx, tableName) THEN idx[tableName] ELSE <<>>
        withTable == WithTableIndexes(idx, tableName, old)
    IN IF columnName \in DOMAIN old
       THEN [idx |-> withTable, err |-> "AlreadyExists"]
       ELSE [idx |-> WithTableIndexes(idx, tableName,
                        [c \in DOMAIN old \cup {columnName} |->
                            IF c = columnName THEN NewBTree ELSE old[c]]),
             err |-> ""]

DropTableIndexes(idx, tableName) ==
    [tn \in DOMAIN idx \ {tableName} |-> idx[tn]]

-----------------------------------------------------------------------------
(* Predicates of the executor *)

\* An expression leaf: Identifier (Name), Literal (Value), NullLiteral, or a
\* nested BinaryExpr, which the evaluation rejects without looking inside.
Identifier(name) == [type |-> "Identifier", Name |-> name, Value |-> Nil]
Literal(v) == [type |-> "Literal", Name |-> "", Value |-> v]
NullLiteral == [type |-> "NullLiteral", Name |-> "", Value |-> Nil]
NestedExpr == [type |-> "BinaryExpr", Name |-> "", Value |-> Nil]

\* A WHERE tree: a BinaryExpr over two leaves, a bare leaf, or absent ("nil")
BinaryExpr(l, op, r) == [type |-> "BinaryExpr", Left |-> l, Operator |-> op, Right |-> r]
BareExpr(l) == [type |-> l.type, Left |-> l, Operator |-> "", Right |-> NullLiteral]
NoWhere == [type |-> "nil", Left |-> NullLiteral, Operator |-> "", Right |-> NullLiteral]

lessThan(left, right) ==
    IF left.k = "int" /\ right.k = "int" THEN [ok |-> left.n < right.n, err |-> ""]
    ELSE IF left.k = "float64" /\ right.k = "float64" THEN [ok |-> left.n < right.n, err |-> ""]
    ELSE IF left.k = "string" /\ right.k = "string" THEN [ok |-> StrLess(left.s, right.s), err |-> ""]
    ELSE [ok |-> FALSE, err |-> "IncomparableTypes"]

greaterThan(left, right) ==
    IF left.k = "int" /\ right.k = "int" THEN [ok |-> left.n > right.n, err |-> ""]
    ELSE IF left.k = "float64" /\ right.k = "float64" THEN [ok |-> left.n > right.n, err |-> ""]
    ELSE IF left.k = "string" /\ right.k = "string" THEN [ok |-> StrLess(right.s, left.s), err |-> ""]
    ELSE [ok |-> FALSE, err |-> "IncomparableTypes"]

lessThanOrEqual(left, right) ==
    LET lt == lessThan(left, right)
    IN IF lt.err = "" /\ lt.ok THEN [ok |-> TRUE, err |-> ""]
       ELSE [ok |-> left = right, err |-> ""]

greaterThanOrEqual(left, right) ==
    LET gt == greaterThan(left, right)
    IN IF gt.err = "" /\ gt.ok THEN [ok |-> TRUE, err |-> ""]
       ELSE [ok |-> left = right, err |-> ""]

\* compareValues without its branch for nil operands
compareValuesOfSwitch(left, right, operator) ==
    IF operator = "=" THEN [ok |-> left = right, err |-> ""]
    ELSE IF operator = "!=" THEN [ok |-> left # right, err |-> ""]
    ELSE IF operator = "<" THEN lessThan(left, right)
    ELSE IF operator = ">" THEN greaterThan(left, right)
    ELSE IF operator = "<=" THEN lessThanOrEqual(left, right)
    ELSE IF operator = ">=" THEN greaterThanOrEqual(left, right)
    ELSE [ok |-> FALSE, err |-> "UnsupportedOperator"]

compareValues(left, right, operator) ==
    IF left = Nil \/ right = Nil
    THEN IF operator = "=" THEN [ok |-> left = right, err |-> ""]
         ELSE [ok |-> FALSE, err |-> ""]
    ELSE IF operator = "=" THEN [ok |-> left = right, err |-> ""]
    ELSE IF operator = "!=" THEN [ok |-> left # right, err |-> ""]
    ELSE IF operator = "<" THEN lessThan(left, right)
    ELSE IF operator = ">" THEN greaterThan(left, right)
    ELSE IF operator = "<=" THEN lessThanOrEqual(left, right)
    ELSE IF operator = ">=" THEN greaterThanOrEqual(left, right)
    ELSE [ok |-> FALSE, err |-> "UnsupportedOperator"]

getColumnValue(expr, row, schema) ==
    IF expr.type = "Identifier"
    THEN LET idx == GetColumnIndex(schema, expr.Name)
         IN IF idx = 0 THEN [v |-> Nil, err |-> "NotFound"]
            ELSE [v |-> row[idx], err |-> ""]
    ELSE IF expr.type = "Literal" THEN [v |-> expr.Value, err |-> ""]
    ELSE IF expr.type = "NullLiteral" THEN [v |-> Nil, err |-> ""]
    ELSE [v |-> Nil, err |-> "UnsupportedExpression"]

evaluateCondition(expr, row, schema) ==
    IF expr.type = "BinaryExpr"
    THEN LET left == getColumnValue(expr.Left, row, schema)
             right == getColumnValue(expr.Right, row, schema)
         IN IF left.err # "" THEN [ok |-> FALSE, err |-> left.err]
            ELSE IF right.err # "" THEN [ok |-> FALSE, err |-> right.err]
            ELSE compareValues(left.v, right.v, expr.Operator)
    ELSE [ok |-> FALSE, err |-> "UnsupportedExpression"]

\* the closure executeUpdate and executeDelete hand to the table: absent for
\* no WHERE (every row matches), else a function that turns an evaluation
\* error into "no match"
condition(where, row, schema) ==
    IF where.type = "nil" THEN TRUE
    ELSE LET m == evaluateCondition(where, row, schema)
         IN IF m.err # "" THEN FALSE ELSE m.ok

-----------------------------------------------------------------------------
(* Storage engine: tables *)

Table(schema, rows) == [Schema |-> schema, Rows |-> rows]

\* the error of the first value of row that its column rejects, "" when all pass
RECURSIVE FirstInvalid(_, _, _)
FirstInvalid(row, columns, i) ==
    IF i > Len(columns) THEN ""
    ELSE LET e == ValidateValue(row[i], columns[i])
         IN IF e # "" THEN e ELSE FirstInvalid(row, columns, i + 1)

\* the primary-key loop of InsertRow: a column of PrimaryKeys, looked up by
\* name, in which an existing row holds the new row's value (nil included)
PrimaryKeyTaken(t, row) ==
    \E p \in 1..Len(t.Schema.PrimaryKeys) :
        LET pkIndex == GetColumnIndex(t.Schema, t.Schema.PrimaryKeys[p])
        IN /\ pkIndex # 0
           /\ \E r \in 1..Len(t.Rows) : t.Rows[r][pkIndex] = row[pkIndex]

\* the unique loop of InsertRow: as above, but a nil value is let through
UniqueKeyTaken(t, row) ==
    \E u \in 1..Len(t.Schema.UniqueKeys) :
        LET uniqueIndex == GetColumnIndex(t.Schema, t.Schema.UniqueKeys[u])
        IN /\ uniqueIndex # 0
           /\ row[uniqueIndex] # Nil
           /\ \E r \in 1..Len(t.Rows) : t.Rows[r][uniqueIndex] = row[uniqueIndex]

\* InsertRow as it would be if the row were appended before the key loops
InsertRowAppendingFirst(t, row) ==
    IF Len(row) # Len(t.Schema.Columns) THEN [t |-> t, err |-> "ArityMismatch"]
    ELSE LET invalid == FirstInvalid(row, t.Schema.Columns, 1)
             appended == [t EXCEPT !.Rows = Append(@, row)]
         IN IF invalid # "" THEN [t |-> t, err |-> invalid]
            ELSE IF PrimaryKeyTaken(t, row) THEN [t |-> appended, err |-> "DuplicateKey"]
            ELSE IF UniqueKeyTaken(t, row) THEN [t |-> appended, err |-> "DuplicateKey"]
            ELSE [t |-> appended, err |-> ""]

InsertRow(t, row) ==
    IF Len(row) # Len(t.Schema.Columns) THEN [t |-> t, err |-> "ArityMismatch"]
    ELSE LET invalid == FirstInvalid(row, t.Schema.Columns, 1)
         IN IF invalid # "" THEN [t |-> t, err |-> invalid]
            ELSE IF PrimaryKeyTaken(t, row) THEN [t |-> t, err |-> "DuplicateKey"]
            ELSE IF UniqueKeyTaken(t, row) THEN [t |-> t, err |-> "DuplicateKey"]
            ELSE [t |-> [t EXCEPT !.Rows = Append(@, row)], err |-> ""]

SelectRows(t) == t.Rows

\* The inner loop of UpdateRows on one row.  updates is the update map in the
\* order the range statement happens to yield it: a sequence of <<column
\* name, value>> with distinct names.  Each pair is validated and then
\* written before the next is looked at; the first failure returns with
\* the earlier writes in place.
RECURSIVE ApplyUpdates(_, _, _, _)
ApplyUpdates(schema, row, updates, i) ==
    IF i > Len(updates) THEN [row |-> row, err |-> ""]
    ELSE LET colIndex == GetColumnIndex(schema, updates[i][1])
         IN IF colIndex = 0 THEN [row |-> row, err |-> "NotFound"]
            ELSE LET e == ValidateValue(updates[i][2], schema.Columns[colIndex])
                 IN IF e # "" THEN [row |-> row, err |-> e]
                    ELSE ApplyUpdates(schema, [row EXCEPT ![colIndex] = updates[i][2]],
                                      updates, i + 1)

\* The outer loop of UpdateRows from row r on, count rows updated so far
RECURSIVE UpdateFrom(_, _, _, _, _)
UpdateFrom(t, where, updates, r, count) ==
    IF r > Len(t.Rows) THEN [t |-> t, count |-> count, err |-> ""]
    ELSE IF condition(where, t.Rows[r], t.Schema)
         THEN LET u == ApplyUpdates(t.Schema, t.Rows[r], updates, 1)
                  t2 == [t EXCEPT !.Rows[r] = u.row]
              IN IF u.err # "" THEN [t |-> t2, count |-> count, err |-> u.err]
                 ELSE UpdateFrom(t2, where, updates, r + 1, count + 1)
         ELSE UpdateFrom(t, where, updates, r + 1, count)

\* UpdateRows as it would be if it never asked the predicate
UpdateRowsEveryRow(t, where, updates) == UpdateFrom(t, NoWhere, updates, 1, 0)

UpdateRows(t, where, updates) == UpdateFrom(t, where, updates, 1, 0)

\* the filter of DeleteRows as it would be with the test inverted
RECURSIVE RetainedMatching(_, _, _)
RetainedMatching(rows, where, schema) ==
    IF rows = <<>> THEN <<>>
    ELSE IF condition(where, Head(rows), schema)
         THEN <<Head(rows)>> \o RetainedMatching(Tail(rows), where, schema)
         ELSE RetainedMatching(Tail(rows), where, schema)

\* the rows of rows, in order, that the predicate does not hold for
RECURSIVE Retained(_, _, _)
Retained(rows, where, schema) ==
    IF rows = <<>> THEN <<>>
    ELSE IF condition(where, Head(rows), schema)
         THEN Retained(Tail(rows), where, schema)
         ELSE <<Head(rows)>> \o Retained(Tail(rows), where, schema)

\* DeleteRows as it would be if it stopped at the first row it removes
DeleteRowsFirstMatch(t, where) ==
    LET hits == {r \in 1..Len(t.Rows) : condition(where, t.Rows[r], t.Schema)}
        first == CHOOSE r \in hits : \A q \in hits : r <= q
        newRows == IF hits = {} THEN t.Rows
                   ELSE SubSeq(t.Rows, 1, first - 1) \o SubSeq(t.Rows, first + 1, Len(t.Rows))
    IN [t |-> [t EXCEPT !.Rows = newRows], count |-> Len(t.Rows) - Len(newRows)]

DeleteRows(t, where) ==
    LET newRows == IF where.type = "nil" THEN <<>> ELSE Retained(t.Rows, where, t.Schema)
    IN [t |-> [t EXCEPT !.Rows = newRows], count |-> Len(t.Rows) - Len(newRows)]

-----------------------------------------------------------------------------
(* Persistence: encoding/gob *)

\* A gob struct is sent as the <<field number, value>> pairs of its fields
\* that are not the zero value of their type; fields is a sequence of
\* <<field number, encoded value, is zero>>.
GobStruct(fields) ==
    LET sent == SelectSeq(fields, LAMBDA f : ~f[3])
    IN [i \in 1..Len(sent) |-> <<sent[i][1], sent[i][2]>>]

\* the value a decoded struct gets for field num: what was sent, else zero
GobField(enc, num, zero) ==
    IF \E i \in 1..Len(enc) : enc[i][1] = num
    THEN enc[CHOOSE i \in 1..Len(enc) : enc[i][1] = num][2]
    ELSE zero

\* the encoding of an interface value as it would be if a zero value were
\* left out as a zero struct field is
GobEncodeInterfaceOmittingZero(v) ==
    IF v = Nil \/ (v.n = 0 /\ v.s = "") THEN <<"">>
    ELSE IF v.k = "string" THEN <<v.k, v.s>>
    ELSE <<v.k, v.n>>

\* An interface value is sent as the registered name of its concrete type
\* and the value, zero or not; a nil interface as the empty name.
GobEncodeInterface(v) ==
    IF v = Nil THEN <<"">>
    ELSE IF v.k = "string" THEN <<v.k, v.s>>
    ELSE <<v.k, v.n>>

GobDecodeInterface(e) ==
    IF e[1] = "" THEN Nil
    ELSE IF e[1] = "string" THEN [k |-> e[1], n |-> 0, s |-> e[2]]
    ELSE [k |-> e[1], n |-> e[2], s |-> ""]

GobEncodeColumn(c) ==
    GobStruct(<< <<1, c.Name, c.Name = "">>,
                 <<2, c.DataType, c.DataType = 0>>,
                 <<3, c.Size, c.Size = 0>>,
                 <<4, c.PrimaryKey, ~c.PrimaryKey>>,
                 <<5, c.Unique, ~c.Unique>>,
                 <<6, c.NotNull, ~c.NotNull>> >>)

GobDecodeColumn(e) ==
    [Name |-> GobField(e, 1, ""), DataType |-> GobField(e, 2, 0),
     Size |-> GobField(e, 3, 0), PrimaryKey |-> GobField(e, 4, FALSE),
     Unique |-> GobField(e, 5, FALSE), NotNull |-> GobField(e, 6, FALSE)]

GobEncodeSchema(s) ==
    GobStruct(<< <<1, s.TableName, s.TableName = "">>,
                 <<2, [i \in 1..Len(s.Columns) |-> GobEncodeColumn(s.Columns[i])],
                      s.Columns = <<>> >>,
                 <<3, s.PrimaryKeys, s.PrimaryKeys = <<>> >>,
                 <<4, s.UniqueKeys, s.UniqueKeys = <<>> >> >>)

GobDecodeSchema(e) ==
    LET cols == GobField(e, 2, <<>>)
    IN [TableName |-> GobField(e, 1, ""),
        Columns |-> [i \in 1..Len(cols) |-> GobDecodeColumn(cols[i])],
        PrimaryKeys |-> GobField(e, 3, <<>>),
        UniqueKeys |-> GobField(e, 4, <<>>)]

\* a *Row is sent as the Row struct: its one field Values, when not empty
GobEncodeRow(row) ==
    GobStruct(<< <<1, [i \in 1..Len(row) |-> GobEncodeInterface(row[i])], row = <<>> >> >>)

GobDecodeRow(e) ==
    LET vals == GobField(e, 1, <<>>)
    IN [i \in 1..Len(vals) |-> GobDecodeInterface(vals[i])]

GobEncodeRows(rows) == [i \in 1..Len(rows) |-> GobEncodeRow(rows[i])]

GobDecodeRows(e) == [i \in 1..Len(e) |-> GobDecodeRow(e[i])]

\* the data directory with file name holding contents
WithFile(d, name, contents) ==
    [f \in DOMAIN d \cup {name} |-> IF f = name THEN contents ELSE d[f]]

RemoveFile(d, name) == [f \in DOMAIN d \ {name} |-> d[f]]

\* saveTable: the file is created (truncated) and receives two messages, the
\* schema and then the rows.  fault is where the I/O fails: "" nowhere,
\* "create" in os.Create, "encode" in the first Encode.
saveTable(d, table, fault) ==
    IF fault = "create" THEN [disk |-> d, err |-> "IOError"]
    ELSE IF fault = "encode"
         THEN [disk |-> WithFile(d, table.Schema.TableName, <<>>), err |-> "IOError"]
    ELSE [disk |-> WithFile(d, table.Schema.TableName,
                            <<GobEncodeSchema(table.Schema), GobEncodeRows(table.Rows)>>),
          err |-> ""]

\* SaveAllTables, the tables taken in the order the map yields them
RECURSIVE SaveFrom(_, _, _, _)
SaveFrom(d, tbls, order, i) ==
    IF i > Len(order) THEN [disk |-> d, err |-> ""]
    ELSE SaveFrom(saveTable(d, tbls[order[i]], "").disk, tbls, order, i + 1)

\* some enumeration of the finite set S as a sequence
RECURSIVE SeqOf(_)
SeqOf(S) ==
    IF S = {} THEN <<>>
    ELSE LET x == CHOOSE y \in S : TRUE IN <<x>> \o SeqOf(S \ {x})

SaveAllTables(d, tbls) == SaveFrom(d, tbls, SeqOf(DOMAIN tbls), 1)

loadTable(d, tableName) ==
    LET file == d[tableName]
    IN IF Len(file) < 2 THEN [t |-> Table(NewSchema(""), <<>>), err |-> "IOError"]
       ELSE [t |-> Table(GobDecodeSchema(file[1]), GobDecodeRows(file[2])), err |-> ""]

\* loadTables: every .tbl file of the directory, registered under its file
\* name; the first file that does not decode fails the whole load
loadTables(d) ==
    IF \E f \in DOMAIN d : loadTable(d, f).err # ""
    THEN [tables |-> <<>>, err |-> "IOError"]
    ELSE [tables |-> [f \in DOMAIN d |-> loadTable(d, f).t], err |-> ""]

-----------------------------------------------------------------------------
(* Storage engine: table lifecycle *)

WithTable(tbls, name, t) ==
    [tn \in DOMAIN tbls \cup {name} |-> IF tn = name THEN t ELSE tbls[tn]]

WithoutTable(tbls, name) == [tn \in DOMAIN tbls \ {name} |-> tbls[tn]]

\* the index loop of CreateTable from column i on: one CreateIndex for each
\* primary-key or unique column, stopping at the first that fails
RECURSIVE CreateIndexes(_, _, _)
CreateIndexes(idx, schema, i) ==
    IF i > Len(schema.Columns) THEN [idx |-> idx, err |-> ""]
    ELSE LET col == schema.Columns[i]
         IN IF col.PrimaryKey \/ col.Unique
            THEN LET c == CreateIndex(idx, schema.TableName, col.Name)
                 IN IF c.err # "" THEN [idx |-> c.idx, err |-> "IndexAlreadyExists"]
                    ELSE CreateIndexes(c.idx, schema, i + 1)
            ELSE CreateIndexes(idx, schema, i + 1)

\* CreateTable as it would be without the delete of the failure branches
CreateTableKeepingTable(tbls, idx, d, schema, fault) ==
    IF schema.TableName \in DOMAIN tbls
    THEN [tables |-> tbls, indexes |-> idx, disk |-> d, err |-> "AlreadyExists"]
    ELSE LET table == Table(schema, <<>>)
             ci == CreateIndexes(idx, schema, 1)
             sv == saveTable(d, table, fault)
             registered == WithTable(tbls, schema.TableName, table)
         IN IF ci.err # ""
            THEN [tables |-> registered, indexes |-> ci.idx, disk |-> d, err |-> ci.err]
            ELSE [tables |-> registered, indexes |-> ci.idx, disk |-> sv.disk,
                  err |-> sv.err]

\* fault: where the I/O of saveTable fails, "" for nowhere
CreateTable(tbls, idx, d, schema, fault) ==
    IF schema.TableName \in DOMAIN tbls
    THEN [tables |-> tbls, indexes |-> idx, disk |-> d, err |-> "AlreadyExists"]
    ELSE LET table == Table(schema, <<>>)
             ci == CreateIndexes(idx, schema, 1)
             sv == saveTable(d, table, fault)
         IN IF ci.err # ""
            THEN [tables |-> tbls, indexes |-> ci.idx, disk |-> d, err |-> ci.err]
            ELSE IF sv.err # ""
            THEN [tables |-> tbls, indexes |-> ci.idx, disk |-> sv.disk, err |-> sv.err]
            ELSE [tables |-> WithTable(tbls, schema.TableName, table),
                  indexes |-> ci.idx, disk |-> sv.disk, err |-> ""]

\* fault: "remove" when os.Remove fails for another reason than a missing
\* file, "" when it does not
DropTable(tbls, idx, d, tableName, fault) ==
    IF tableName \notin DOMAIN tbls
    THEN [tables |-> tbls, indexes |-> idx, disk |-> d, err |-> "NotFound"]
    ELSE IF fault = "remove" /\ tableName \in DOMAIN d
    THEN [tables |-> WithoutTable(tbls, tableName),
          indexes |-> DropTableIndexes(idx, tableName),
          disk |-> d, err |-> "IOError"]
    ELSE [tables |-> WithoutTable(tbls, tableName),
          indexes |-> DropTableIndexes(idx, tableName),
          disk |-> RemoveFile(d, tableName), err |-> ""]

\* NewStorage: an empty table map and a new index manager, then loadTables
NewStorage(d) ==
    LET l == loadTables(d)
    IN [tables |-> l.tables, indexes |-> NewManager, err |-> l.err]

-----------------------------------------------------------------------------
(* Executor: statements *)

ColumnDef(name, dataType, size, pk, unique, notNull) ==
    [Name |-> name, DataType |-> dataType, Size |-> size,
     PrimaryKey |-> pk, Unique |-> unique, NotNull |-> notNull]

\* the data type switch of executeCreateTable; -1 for an unsupported name
ConvertDataType(name) ==
    IF name = "INTEGER" THEN TypeInteger
    ELSE IF name = "VARCHAR" THEN TypeVarchar
    ELSE IF name = "BOOLEAN" THEN TypeBoolean
    ELSE IF name = "FLOAT" THEN TypeFloat
    ELSE -1

\* the schema executeCreateTable builds from the column definitions
RECURSIVE BuildSchema(_, _, _)
BuildSchema(schema, defs, i) ==
    IF i > Len(defs) THEN schema
    ELSE LET d == defs[i]
         IN BuildSchema(AddColumn(schema,
                            Column(d.Name, ConvertDataType(d.DataType), d.Size,
                                   d.PrimaryKey, d.Unique, d.NotNull)),
                        defs, i + 1)

executeCreateTable(tbls, idx, d, tableName, defs, fault) ==
    IF \E i \in 1..Len(defs) : ConvertDataType(defs[i].DataType) = -1
    THEN [tables |-> tbls, indexes |-> idx, disk |-> d, err |-> "UnsupportedType", n |-> 0]
    ELSE LET c == CreateTable(tbls, idx, d, BuildSchema(NewSchema(tableName), defs, 1), fault)
         IN IF c.err # ""
            THEN [tables |-> c.tables, indexes |-> c.indexes, disk |-> c.disk,
                  err |-> c.err, n |-> 0]
            ELSE [tables |-> c.tables, indexes |-> c.indexes,
                  disk |-> SaveAllTables(c.disk, c.tables).disk, err |-> "", n |-> 0]

executeDropTable(tbls, idx, d, tableName) ==
    LET r == DropTable(tbls, idx, d, tableName, "")
    IN [tables |-> r.tables, indexes |-> r.indexes, disk |-> r.disk, err |-> r.err, n |-> 0]

evaluateExpression(expr) ==
    IF expr.type = "Literal" THEN [v |-> expr.Value, err |-> ""]
    ELSE IF expr.type = "NullLiteral" THEN [v |-> Nil, err |-> ""]
    ELSE [v |-> Nil, err |-> "UnsupportedExpression"]

\* FillRow placing the i-th value in the i-th slot, whatever its column
RECURSIVE FillRowInOrder(_, _, _, _)
FillRowInOrder(row, valueSet, columnIndices, i) ==
    IF i > Len(valueSet) THEN [row |-> row, err |-> ""]
    ELSE LET v == evaluateExpression(valueSet[i])
         IN IF v.err # "" THEN [row |-> row, err |-> v.err]
            ELSE FillRowInOrder([row EXCEPT ![i] = v.v], valueSet, columnIndices, i + 1)

\* the row executeInsert builds from one value tuple: all nil, then each
\* value in turn at the position of its column; the first expression that
\* does not evaluate ends it
RECURSIVE FillRow(_, _, _, _)
FillRow(row, valueSet, columnIndices, i) ==
    IF i > Len(valueSet) THEN [row |-> row, err |-> ""]
    ELSE LET v == evaluateExpression(valueSet[i])
         IN IF v.err # "" THEN [row |-> row, err |-> v.err]
            ELSE FillRow([row EXCEPT ![columnIndices[i]] = v.v], valueSet,
                         columnIndices, i + 1)

\* the tuple loop of executeInsert from tuple i on; a tuple that fails
\* returns at once, the rows of the earlier tuples staying in the table
RECURSIVE InsertTuples(_, _, _, _, _)
InsertTuples(t, values, columns, i, rowsInserted) ==
    IF i > Len(values) THEN [t |-> t, err |-> "", n |-> rowsInserted]
    ELSE IF Len(values[i]) # Len(columns)
         THEN [t |-> t, err |-> "ColumnCountMismatch", n |-> rowsInserted]
    ELSE LET columnIndices == [c \in 1..Len(columns) |-> GetColumnIndex(t.Schema, columns[c])]
             f == FillRow([c \in 1..Len(t.Schema.Columns) |-> Nil], values[i],
                          columnIndices, 1)
             ins == InsertRow(t, f.row)
         IN IF f.err # "" THEN [t |-> t, err |-> f.err, n |-> rowsInserted]
            ELSE IF ins.err # "" THEN [t |-> t, err |-> ins.err, n |-> rowsInserted]
            ELSE InsertTuples(ins.t, values, columns, i + 1, rowsInserted + 1)

executeInsert(tbls, d, tableName, stmtColumns, values) ==
    IF tableName \notin DOMAIN tbls
    THEN [tables |-> tbls, disk |-> d, err |-> "NotFound", n |-> 0]
    ELSE LET table == tbls[tableName]
             columns == IF Len(stmtColumns) = 0
                        THEN [c \in 1..Len(table.Schema.Columns) |-> table.Schema.Columns[c].Name]
                        ELSE stmtColumns
         IN IF \E c \in 1..Len(columns) : GetColumnIndex(table.Schema, columns[c]) = 0
            THEN [tables |-> tbls, disk |-> d, err |-> "NotFound", n |-> 0]
            ELSE LET r == InsertTuples(table, values, columns, 1, 0)
                     tbls2 == WithTable(tbls, tableName, r.t)
                 IN IF r.err # ""
                    THEN [tables |-> tbls2, disk |-> d, err |-> r.err, n |-> r.n]
                    ELSE [tables |-> tbls2, disk |-> SaveAllTables(d, tbls2).disk,
                          err |-> "", n |-> r.n]

\* the value loop of executeUpdate from entry i on: set is the SET map as
\* <<column name, expression>> pairs in the order the map yields them
RECURSIVE EvaluateSet(_, _, _)
EvaluateSet(set, i, updates) ==
    IF i > Len(set) THEN [updates |-> updates, err |-> ""]
    ELSE LET v == evaluateExpression(set[i][2])
         IN IF v.err # "" THEN [updates |-> updates, err |-> v.err]
            ELSE EvaluateSet(set, i + 1, Append(updates, <<set[i][1], v.v>>))

executeUpdate(tbls, d, tableName, set, where) ==
    IF tableName \notin DOMAIN tbls
    THEN [tables |-> tbls, disk |-> d, err |-> "NotFound", n |-> 0]
    ELSE LET ev == EvaluateSet(set, 1, <<>>)
             u == UpdateRows(tbls[tableName], where, ev.updates)
             tbls2 == WithTable(tbls, tableName, u.t)
         IN IF ev.err # "" THEN [tables |-> tbls, disk |-> d, err |-> ev.err, n |-> 0]
            ELSE IF u.err # "" THEN [tables |-> tbls2, disk |-> d, err |-> u.err, n |-> u.count]
            ELSE [tables |-> tbls2, disk |-> SaveAllTables(d, tbls2).disk,
                  err |-> "", n |-> u.count]

\* executeDelete as it would be without its SaveAllTables
executeDeleteUnsaved(tbls, d, tableName, where) ==
    IF tableName \notin DOMAIN tbls
    THEN [tables |-> tbls, disk |-> d, err |-> "NotFound", n |-> 0]
    ELSE LET r == DeleteRows(tbls[tableName], where)
         IN [tables |-> WithTable(tbls, tableName, r.t), disk |-> d,
             err |-> "", n |-> r.count]

executeDelete(tbls, d, tableName, where) ==
    IF tableName \notin DOMAIN tbls
    THEN [tables |-> tbls, disk |-> d, err |-> "NotFound", n |-> 0]
    ELSE LET r == DeleteRows(tbls[tableName], where)
             tbls2 == WithTable(tbls, tableName, r.t)
         IN [tables |-> tbls2, disk |-> SaveAllTables(d, tbls2).disk,
             err |-> "", n |-> r.count]

-----------------------------------------------------------------------------
(* sync.RWMutex, and the goroutines that call into one table *)

\* a mutex is the set w of goroutines that hold it for writing and the set r
\* of goroutines that hold it for reading
NewRWMutex == [w |-> {}, r |-> {}]

\* Lock returns once nobody holds the mutex
\* Lock as it would be if it did not wait for the readers
CanLockIgnoringReaders(m) == m.w = {}

CanLock(m) == m.w = {} /\ m.r = {}

Lock(m, p) == [m EXCEPT !.w = @ \cup {p}]

Unlock(m, p) == [m EXCEPT !.w = @ \ {p}]

\* RLock returns once nobody holds the mutex for writing
CanRLock(m) == m.w = {}

RLock(m, p) == [m EXCEPT !.r = @ \cup {p}]

\* RUnlock as it would be if the reader stayed registered
RUnlockKeepingReader(m, p) == m

RUnlock(m, p) == [m EXCEPT !.r = @ \ {p}]

\* no goroutine besides the one that runs the calls or statements in turn
NoGoroutines ==
    /\ pc = <<>>
    /\ mu = NewRWMutex
    /\ local = <<>>

\* nothing asked yet
NoOutput == [call |-> "", args |-> <<>>, ret |-> <<>>, err |-> ""]

-----------------------------------------------------------------------------
(* Inputs *)

TableNames == {"t", "u"}

Values == {Nil, IntV(1), IntV(2), StrV("x"), StrV("yyy"), FloatV(1), BoolV(TRUE)}

\* column definitions of the tables: the scenario's table, a table with two
\* columns of one name, a table with a unique and a not-null column
ColumnDefs ==
    { << ColumnDef("id", "INTEGER", 0, TRUE, FALSE, FALSE),
         ColumnDef("v", "VARCHAR", 2, FALSE, FALSE, FALSE) >>,
      << ColumnDef("id", "INTEGER", 0, FALSE, FALSE, FALSE),
         ColumnDef("id", "INTEGER", 0, TRUE, FALSE, FALSE) >>,
      << ColumnDef("id", "FLOAT", 0, FALSE, TRUE, FALSE),
         ColumnDef("v", "BOOLEAN", 0, FALSE, FALSE, TRUE) >> }

Schemas(tableName) == {BuildSchema(NewSchema(tableName), defs, 1) : defs \in ColumnDefs}

\* rows handed to InsertRow: every pair of values, and two of another length
RowInputs == (Values \X Values) \cup {<<IntV(1)>>, <<IntV(1), StrV("x"), Nil>>}

UpdateValues == {Nil, IntV(1), StrV("x"), StrV("yyy")}

ColumnNames == {"id", "v", "zz"}

\* update maps with one or two entries, in each order the map can yield them
UpdateInputs ==
    { <<e>> : e \in ColumnNames \X UpdateValues }
    \cup { <<e1, e2>> : e1 \in ColumnNames \X {IntV(1), StrV("yyy")},
                        e2 \in ColumnNames \X {IntV(1), StrV("yyy")} }

WhereInputs ==
    { NoWhere,
      BinaryExpr(Identifier("id"), "=", Literal(IntV(1))),
      BinaryExpr(Identifier("v"), "!=", Literal(StrV("x"))),
      BinaryExpr(Identifier("zz"), "=", Literal(IntV(1))) }

Result(op, tbl, err, n) == [op |-> op, tbl |-> tbl, err |-> err, n |-> n]

-----------------------------------------------------------------------------
(* Calls on one table: InsertRow, UpdateRows and DeleteRows on table "t",   *)
(* which CreateTable made                                                   *)

InitTable ==
    /\ \E schema \in Schemas("t") :
          LET c == CreateTable(<<>>, NewManager, <<>>, schema, "")
          IN /\ tables = c.tables
             /\ indexes = c.indexes
             /\ disk = c.disk
    /\ res = Result("CreateTable", "t", "", 0)
    /\ bt = NewBTree
    /\ btModel = {}
    /\ btRes = Result("NewBTree", "", "", 0)
    /\ NoGoroutines
    /\ out = NoOutput

CallInsertRow(row) ==
    /\ Len(tables["t"].Rows) < MaxRows
    /\ LET r == InsertRow(tables["t"], row)
       IN /\ tables' = WithTable(tables, "t", r.t)
          /\ res' = Result("InsertRow", "t", r.err, 0)
    /\ UNCHANGED <<indexes, disk, bt, btModel, btRes, pc, mu, local, out>>

CallUpdateRows(where, updates) ==
    /\ LET r == UpdateRows(tables["t"], where, updates)
       IN /\ tables' = WithTable(tables, "t", r.t)
          /\ res' = Result("UpdateRows", "t", r.err, r.count)
    /\ UNCHANGED <<indexes, disk, bt, btModel, btRes, pc, mu, local, out>>

CallDeleteRows(where) ==
    /\ LET r == DeleteRows(tables["t"], where)
       IN /\ tables' = WithTable(tables, "t", r.t)
          /\ res' = Result("DeleteRows", "t", "", r.count)
    /\ UNCHANGED <<indexes, disk, bt, btModel, btRes, pc, mu, local, out>>

NextTable ==
    \/ \E row \in RowInputs : CallInsertRow(row)
    \/ \E where \in WhereInputs, updates \in UpdateInputs :
          /\ updates[1][1] # updates[Len(updates)][1] \/ Len(updates) = 1
          /\ CallUpdateRows(where, updates)
    \/ \E where \in WhereInputs : CallDeleteRows(where)

SpecTable == InitTable /\ [][NextTable]_vars

-----------------------------------------------------------------------------
(* A B-tree on its own: Insert and Delete of integer keys *)

MaxKey == 5         \* the keys tried are 1..MaxKey

KeyDomain == 1..MaxKey

Positions == {0, 1}

\* Trees built beforehand, so that the keys tried meet full nodes at every
\* level: <<n, dir>> is the tree that n keys around the key domain, each a
\* multiple of MaxKey + 1, make when inserted into an empty tree in ascending
\* (dir = 1) or descending (dir = -1) order, key number i with row position i
BulkShapes == {<<0, 1>>, <<6, 1>>, <<32, 1>>, <<32, -1>>, <<48, 1>>, <<48, -1>>}

BulkKey(i, n) == (i - n \div 2) * (MaxKey + 1)

RECURSIVE Bulk(_, _, _, _)
Bulk(root, i, n, dir) ==
    IF i < 1 \/ i > n THEN root
    ELSE LET r == Insert(root, IntV(BulkKey(i, n)), i)
         IN IF r.err = "" THEN Bulk(r.root, i + dir, n, dir) ELSE root

InitBTree(shapes) ==
    /\ tables = <<>>
    /\ indexes = NewManager
    /\ disk = <<>>
    /\ res = Result("NewStorage", "", "", 0)
    /\ \E sh \in shapes :
          /\ bt = Bulk(NewBTree, IF sh[2] = 1 THEN 1 ELSE sh[1], sh[1], sh[2])
          /\ btModel = {<<BulkKey(i, sh[1]), i>> : i \in 1..sh[1]}
    /\ btRes = Result("NewBTree", "", "", 0)
    /\ NoGoroutines
    /\ out = NoOutput

BTInsert(k, p) ==
    /\ LET r == Insert(bt, IntV(k), p)
       IN /\ bt' = r.root
          /\ btModel' = IF r.err = "" THEN btModel \cup {<<k, p>>} ELSE btModel
          /\ btRes' = Result("Insert", "", r.err, 0)
    /\ UNCHANGED <<tables, indexes, disk, res, pc, mu, local, out>>

BTDelete(k) ==
    /\ LET r == Delete(bt, IntV(k))
       IN /\ bt' = r.node
          /\ btModel' = IF r.ok THEN {e \in btModel : e[1] # k} ELSE btModel
          /\ btRes' = Result("Delete", "", IF r.ok THEN "" ELSE "NotFound", 0)
    /\ UNCHANGED <<tables, indexes, disk, res, pc, mu, local, out>>

\* inserts only, into an empty tree or into one built beforehand
NextBTreeIns == \E k \in KeyDomain, p \in Positions : BTInsert(k, p)

SpecBTreeIns == InitBTree(BulkShapes) /\ [][NextBTreeIns]_vars

\* the keys Delete is tried on: the key domain and the least key of the small
\* tree
DeleteDomain == KeyDomain \cup {BulkKey(1, 6)}

\* inserts and deletes, from an empty tree or the small one built beforehand
NextBTree ==
    \/ \E k \in KeyDomain, p \in Positions : BTInsert(k, p)
    \/ \E k \in DeleteDomain : BTDelete(k)

SpecBTree == InitBTree({<<0, 1>>, <<6, 1>>}) /\ [][NextBTree]_vars

-----------------------------------------------------------------------------
(* Properties of the table calls *)

\* v has the runtime kind of col's data type, within the declared length
HasKindOf(v, col) ==
    \/ col.DataType = TypeInteger /\ v.k = "int"
    \/ col.DataType = TypeVarchar /\ v.k = "string" /\ (col.Size > 0 => Len(v.s) <= col.Size)
    \/ col.DataType = TypeBoolean /\ v.k = "bool"
    \/ col.DataType = TypeFloat /\ v.k \in {"float32", "float64"}

\* row has one value per column, each of its column's kind or an allowed nil
FitsSchema(row, schema) ==
    /\ Len(row) = Len(schema.Columns)
    /\ \A i \in 1..Len(schema.Columns) :
          IF row[i] = Nil THEN ~schema.Columns[i].NotNull
          ELSE HasKindOf(row[i], schema.Columns[i])

IsKeyColumn(col) == col.PrimaryKey \/ col.Unique

\* row repeats, in a primary-key or unique column, a non-null value that a
\* row of t holds in that column
RepeatsKey(t, row) ==
    \E i \in 1..Len(t.Schema.Columns) :
        /\ IsKeyColumn(t.Schema.Columns[i])
        /\ row[i] # Nil
        /\ \E r \in 1..Len(t.Rows) : t.Rows[r][i] = row[i]

\* C1: an InsertRow of a row (one that passes the arity and type checks)
\* whose value in a primary-key or unique column is non-null and equal to
\* the value an existing row holds in that column fails with DuplicateKey
\* and leaves the row sequence as it was.
C1_DuplicateKeyRejected ==
    [][res'.op = "InsertRow" =>
          \A row \in RowInputs :
              (/\ FitsSchema(row, tables["t"].Schema)
               /\ RepeatsKey(tables["t"], row)
               /\ CallInsertRow(row))
              => (res'.err = "DuplicateKey" /\ tables'["t"].Rows = tables["t"].Rows)]_vars

\* the non-null values of every primary-key or unique column of t are
\* pairwise distinct across its rows
KeysDistinct(t) ==
    \A i \in 1..Len(t.Schema.Columns) :
        IsKeyColumn(t.Schema.Columns[i]) =>
            \A r1, r2 \in 1..Len(t.Rows) :
                (r1 # r2 /\ t.Rows[r1][i] # Nil) => t.Rows[r1][i] # t.Rows[r2][i]

\* C2: after any sequence of InsertRow, UpdateRows and DeleteRows calls the
\* non-null values of each primary-key column and of each unique column are
\* pairwise distinct across the table's rows.
C2_KeysPairwiseDistinct == \A tn \in DOMAIN tables : KeysDistinct(tables[tn])

\* C3: an UpdateRows that returns an error has changed no value of any row.
C3_UpdateAllOrNothing ==
    [][(res'.op = "UpdateRows" /\ res'.err # "") => tables' = tables]_vars

\* the entries an index on column i of t must hold: each non-null value of
\* the column with the (0-based) position of its row
ColumnEntries(t, i) ==
    {<<t.Rows[r][i], r - 1>> : r \in {q \in 1..Len(t.Rows) : t.Rows[q][i] # Nil}}

TreeEntries(root) == LET all == GetAll(root) IN {all[j] : j \in 1..Len(all)}

IndexCurrent(tn) ==
    \A i \in 1..Len(tables[tn].Schema.Columns) :
        LET col == tables[tn].Schema.Columns[i]
        IN IsKeyColumn(col) =>
              /\ HasIndex(indexes, tn, col.Name)
              /\ TreeEntries(indexes[tn][col.Name]) = ColumnEntries(tables[tn], i)
              /\ \A e \in ColumnEntries(tables[tn], i) :
                    Search(indexes[tn][col.Name], e[1]) = [value |-> e[2], found |-> TRUE]

\* C4: after every successful InsertRow, UpdateRows or DeleteRows the B-tree
\* of each primary-key or unique column holds exactly the non-null values of
\* that column in the current rows, each with the position of its row.
C4_IndexesCurrent ==
    (res.op \in {"InsertRow", "UpdateRows", "DeleteRows"} /\ res.err = "")
        => IndexCurrent(res.tbl)

\* C8: every row of every table has one value per column of the schema, each
\* of the kind of its column (a text within the declared length) or nil in a
\* column not declared notNull, whatever calls were made and returned.
C8_RowsFitSchema ==
    \A tn \in DOMAIN tables :
        \A r \in 1..Len(tables[tn].Rows) : FitsSchema(tables[tn].Rows[r], tables[tn].Schema)

\* a call has failed on a table that holds rows, and a text column is there
\* whose declared length some input exceeds
C8_Witness ==
    /\ res.op = "UpdateRows" /\ res.err = "TypeMismatch"
    /\ Len(tables["t"].Rows) = MaxRows
    /\ \E i \in 1..Len(tables["t"].Schema.Columns) :
          /\ tables["t"].Schema.Columns[i].DataType = TypeVarchar
          /\ tables["t"].Rows[1][i] # Nil

-----------------------------------------------------------------------------
(* Properties of the B-tree *)

\* every integer from below the least key ever inserted to above the greatest
ProbeKeys == (BulkKey(1, 48) - 1)..(BulkKey(48, 48) + 1)

RECURSIVE Height(_)
Height(node) == IF node.isLeaf THEN 1 ELSE 1 + Height(node.children[1])

\* C5: after inserting pairwise distinct integer keys into an empty tree,
\* GetAll yields exactly the inserted (key, position) pairs in strictly
\* ascending key order, and Search finds every inserted key with its position
\* and no key that was never inserted.
C5_GetAllSortedSearchExact ==
    LET all == GetAll(bt)
    IN /\ Len(all) = Cardinality(btModel)
       /\ {<<all[i][1].n, all[i][2]>> : i \in 1..Len(all)} = btModel
       /\ \A i \in 1..Len(all) : all[i][1].k = "int"
       /\ \A i \in 1..(Len(all) - 1) : all[i][1].n < all[i + 1][1].n
       /\ \A k \in ProbeKeys :
             Search(bt, IntV(k)) =
                 IF \E e \in btModel : e[1] = k
                 THEN [value |-> (CHOOSE e \in btModel : e[1] = k)[2], found |-> TRUE]
                 ELSE [value |-> -1, found |-> FALSE]

\* a tree three levels high that holds every key of the key domain
C5_Witness ==
    /\ Height(bt) = 3
    /\ \A k \in KeyDomain : \E e \in btModel : e[1] = k
    /\ \E e1, e2 \in btModel : e1[1] \in KeyDomain /\ e2[1] \in KeyDomain /\ e1[2] # e2[2]

RECURSIVE LeafDepths(_, _)
LeafDepths(node, d) ==
    IF node.isLeaf THEN {d}
    ELSE UNION {LeafDepths(node.children[c], d + 1) : c \in 1..Len(node.children)}

RECURSIVE NodesFilled(_, _)
NodesFilled(node, isRoot) ==
    /\ isRoot \/ (Len(node.keys) >= btreeOrder - 1 /\ Len(node.keys) <= 2 * btreeOrder - 1)
    /\ node.isLeaf \/ \A c \in 1..Len(node.children) : NodesFilled(node.children[c], FALSE)

\* C6: after any sequence of Insert and Delete every leaf is at the same
\* depth and every node but the root holds between degree - 1 and
\* 2 * degree - 1 keys.
C6_Balanced == Cardinality(LeafDepths(bt, 1)) = 1 /\ NodesFilled(bt, TRUE)

\* C7: whenever Delete(key) returns true, Search(key) then reports not-found,
\* GetAll no longer lists the key, and every other key is found as before.
C7_DeleteRemoves ==
    [][btRes'.op = "Delete" =>
          \A k \in DeleteDomain :
              (BTDelete(k) /\ btRes'.err = "")
              => /\ ~Search(bt', IntV(k)).found
                 /\ \A e \in TreeEntries(bt') : e[1] # IntV(k)
                 /\ \A j \in ProbeKeys \ {k} : Search(bt', IntV(j)) = Search(bt, IntV(j))]_vars

-----------------------------------------------------------------------------
(* Statements run one after another by the executor, and restarts *)

\* CREATE TABLE statements as <<table name, column definitions>>: the
\* scenario's table, and under either name a table with a unique FLOAT column
\* and a not-null VARCHAR of no declared length
CreateStmts ==
    { <<"t", << ColumnDef("id", "INTEGER", 0, TRUE, FALSE, FALSE),
                ColumnDef("v", "VARCHAR", 2, FALSE, FALSE, FALSE) >> >> }
    \cup { <<tn, << ColumnDef("id", "FLOAT", 0, FALSE, TRUE, FALSE),
                    ColumnDef("v", "VARCHAR", 0, FALSE, FALSE, TRUE) >> >> : tn \in TableNames }

\* INSERT statements as <<column list, value tuples>>: zero values, a column
\* list that leaves a column null, two tuples of which the first has a NULL
\* and the second a text too long, a FLOAT, a column that does not exist
InsertStmts ==
    { << <<>>, << <<Literal(IntV(0)), Literal(StrV(""))>> >> >>,
      << <<"id">>, << <<Literal(IntV(1))>> >> >>,
      << <<>>, << <<Literal(IntV(1)), NullLiteral>>,
                  <<Literal(IntV(0)), Literal(StrV("yyy"))>> >> >>,
      << <<>>, << <<Literal(FloatV(0)), Literal(StrV("yyy"))>> >> >>,
      << <<"zz">>, << <<Literal(IntV(1))>> >> >> }

\* SET maps as <<column, expression>> pairs in the order the map yields them
SetInputs ==
    { << <<"id", Literal(IntV(1))>> >>,
      << <<"v", NullLiteral>> >>,
      << <<"id", Literal(IntV(0))>>, <<"v", Literal(StrV("yyy"))>> >> }

\* WHERE clauses: none, one on the key, one on a column no table has
StmtWhereInputs ==
    { NoWhere,
      BinaryExpr(Identifier("id"), "=", Literal(IntV(1))),
      BinaryExpr(Identifier("zz"), "=", Literal(IntV(1))) }

RECURSIVE RowCount(_, _)
RowCount(tbls, names) ==
    IF names = {} THEN 0
    ELSE LET tn == CHOOSE x \in names : TRUE
         IN Len(tbls[tn].Rows) + RowCount(tbls, names \ {tn})

\* a new process on an empty data directory
InitExec ==
    /\ LET s == NewStorage(<<>>)
       IN /\ tables = s.tables
          /\ indexes = s.indexes
    /\ disk = <<>>
    /\ res = Result("NewStorage", "", "", 0)
    /\ bt = NewBTree
    /\ btModel = {}
    /\ btRes = Result("NewBTree", "", "", 0)
    /\ NoGoroutines
    /\ out = NoOutput

ExecCreateTable(tableName, defs) ==
    /\ LET r == executeCreateTable(tables, indexes, disk, tableName, defs, "")
       IN /\ tables' = r.tables
          /\ indexes' = r.indexes
          /\ disk' = r.disk
          /\ res' = Result("CREATE TABLE", tableName, r.err, r.n)
    /\ UNCHANGED <<bt, btModel, btRes, pc, mu, local>>
    /\ out' = NoOutput

ExecDropTable(tableName) ==
    /\ LET r == executeDropTable(tables, indexes, disk, tableName)
       IN /\ tables' = r.tables
          /\ indexes' = r.indexes
          /\ disk' = r.disk
          /\ res' = Result("DROP TABLE", tableName, r.err, r.n)
    /\ UNCHANGED <<bt, btModel, btRes, pc, mu, local>>
    /\ out' = NoOutput

ExecInsert(tableName, stmt) ==
    /\ RowCount(tables, DOMAIN tables) + Len(stmt[2]) <= MaxRows
    /\ LET r == executeInsert(tables, disk, tableName, stmt[1], stmt[2])
       IN /\ tables' = r.tables
          /\ disk' = r.disk
          /\ res' = Result("INSERT", tableName, r.err, r.n)
    /\ UNCHANGED <<indexes, bt, btModel, btRes, pc, mu, local>>
    /\ out' = NoOutput

ExecUpdate(tableName, set, where) ==
    /\ LET r == executeUpdate(tables, disk, tableName, set, where)
       IN /\ tables' = r.tables
          /\ disk' = r.disk
          /\ res' = Result("UPDATE", tableName, r.err, r.n)
    /\ UNCHANGED <<indexes, bt, btModel, btRes, pc, mu, local>>
    /\ out' = NoOutput

\* the statement before this one was the same DELETE, and it succeeded
LastDelete(tableName, where) ==
    /\ out.call = "DELETE"
    /\ out.args = <<tableName, where>>
    /\ out.err = ""

\* out keeps the last statement when it was a successful DELETE, and whether
\* it repeats the one before
ExecDelete(tableName, where) ==
    /\ LET r == executeDelete(tables, disk, tableName, where)
       IN /\ tables' = r.tables
          /\ disk' = r.disk
          /\ res' = Result("DELETE", tableName, r.err, r.n)
          /\ out' = IF r.err # "" THEN NoOutput
                     ELSE [call |-> "DELETE", args |-> <<tableName, where>>,
                           ret |-> IF LastDelete(tableName, where) THEN <<"again">>
                                   ELSE <<>>,
                           err |-> ""]
    /\ UNCHANGED <<indexes, bt, btModel, btRes, pc, mu, local>>

\* the process ends and a new one starts on the same data directory
Restart ==
    /\ LET s == NewStorage(disk)
       IN /\ tables' = s.tables
          /\ indexes' = s.indexes
          /\ res' = Result("NewStorage", "", s.err, 0)
    /\ UNCHANGED <<disk, bt, btModel, btRes, pc, mu, local>>
    /\ out' = NoOutput

NextExec ==
    \/ \E stmt \in CreateStmts : ExecCreateTable(stmt[1], stmt[2])
    \/ \E tn \in TableNames : ExecDropTable(tn)
    \/ \E tn \in TableNames, stmt \in InsertStmts : ExecInsert(tn, stmt)
    \/ \E tn \in TableNames, set \in SetInputs, where \in StmtWhereInputs :
          ExecUpdate(tn, set, where)
    \/ \E tn \in TableNames, where \in StmtWhereInputs : ExecDelete(tn, where)
    \/ Restart

SpecExec == InitExec /\ [][NextExec]_vars

-----------------------------------------------------------------------------
(* Properties of persistence *)

\* the statements that end with SaveAllTables
SavingStatements == {"CREATE TABLE", "INSERT", "UPDATE", "DELETE"}

\* the file of table tn decodes to the schema and rows the table has in memory
SnapshotCurrent(tn) ==
    /\ tn \in DOMAIN disk
    /\ loadTable(disk, tn) = [t |-> tables[tn], err |-> ""]

\* C9: after every successful CREATE TABLE, INSERT, UPDATE or DELETE
\* statement the file of each registered table holds that table's schema and
\* row sequence as they are in memory, and after a successful DROP TABLE the
\* dropped table has no file.
C9_SnapshotsCurrent ==
    /\ (res.op \in SavingStatements /\ res.err = "")
          => \A tn \in DOMAIN tables : SnapshotCurrent(tn)
    /\ (res.op = "DROP TABLE" /\ res.err = "") => res.tbl \notin DOMAIN disk

\* a DELETE has removed rows while two tables were registered, one of them
\* still holding a row
C9_Witness ==
    /\ res.op = "DELETE" /\ res.err = "" /\ res.n > 0
    /\ DOMAIN tables = TableNames
    /\ \E tn \in DOMAIN tables : Len(tables[tn].Rows) > 0

\* C10: a table written by saveTable and read back at startup has the same
\* schema (columns in order, primary-key and unique name lists) and the same
\* rows in the same order with the same values, nulls included.
C10_ReloadYieldsSame ==
    \A tn \in DOMAIN tables :
        LET s == NewStorage(saveTable(<<>>, tables[tn], "").disk)
        IN /\ s.err = ""
           /\ DOMAIN s.tables = {tables[tn].Schema.TableName}
           /\ s.tables[tables[tn].Schema.TableName] = tables[tn]

\* a restart has loaded a table of two rows or more that holds a null, a zero
\* number and an empty text
C10_Witness ==
    /\ res.op = "NewStorage" /\ res.err = ""
    /\ \E tn \in DOMAIN tables :
          LET rows == tables[tn].Rows
              held == {rows[r][c] : r \in 1..Len(rows), c \in 1..Len(tables[tn].Schema.Columns)}
          IN /\ Len(rows) >= 2
             /\ {Nil, IntV(0), StrV("")} \subseteq held
             /\ tables[tn].Schema.PrimaryKeys # <<>>

-----------------------------------------------------------------------------
(* Properties of startup *)

\* the keys of the rows of tn, as the tree on column i must list them
LoadedKeys(tn, i) ==
    {tables[tn].Rows[r][i] : r \in {q \in 1..Len(tables[tn].Rows) : tables[tn].Rows[q][i] # Nil}}

\* C11: after NewStorage has loaded the tables, every primary-key or unique
\* column of every loaded table has a registered B-tree, and that tree holds
\* the keys of the loaded rows.
C11_IndexesRebuilt ==
    (res.op = "NewStorage" /\ res.err = "")
        => \A tn \in DOMAIN tables :
              \A i \in 1..Len(tables[tn].Schema.Columns) :
                  LET col == tables[tn].Schema.Columns[i]
                  IN IsKeyColumn(col) =>
                        /\ HasIndex(indexes, tn, col.Name)
                        /\ LoadedKeys(tn, i)
                              \subseteq {e[1] : e \in TreeEntries(indexes[tn][col.Name])}

-----------------------------------------------------------------------------
(* Goroutines calling into table "t" at the same time, one call each.  A   *)
(* call is a                                                               *)
(* sequence of steps: taking Table.mu, the reads and writes of the rows,   *)
(* and the return, which releases the mutex (defer).  A step of one        *)
(* goroutine can fall between any two steps of another; a read of the rows *)
(* that is not ordered with a write by the mutex sees the rows as either   *)
(* side of that write, whichever the interleaving gives.                   *)

Inserters == {"ins1", "ins2"}

Goroutines == Inserters \cup {"upd", "del", "sel", "save"}

\* rows the inserting goroutines carry: two of one key and one of another
\* for each table with an INTEGER key, and one for the FLOAT key
GoRows ==
    { <<IntV(1), Nil>>, <<IntV(1), StrV("x")>>, <<IntV(2), StrV("x")>>,
      <<IntV(1), IntV(1)>>, <<IntV(2), IntV(1)>>, <<FloatV(1), BoolV(TRUE)>> }

GoUpdates == { << <<"v", StrV("y")>> >>, << <<"id", IntV(2)>>, <<"v", StrV("yyy")>> >> }

\* the locals of a goroutine that has not made its call yet: the arguments,
\* the loop index, the count, and what the call returns
IdleLocal == [args |-> <<>>, i |-> 0, n |-> 0, err |-> "", ret |-> <<>>]

InitGo(procs) ==
    /\ \E schema \in Schemas("t") :
          LET c == CreateTable(<<>>, NewManager, <<>>, schema, "")
          IN /\ tables = c.tables
             /\ indexes = c.indexes
             /\ disk = c.disk
    /\ res = Result("CreateTable", "t", "", 0)
    /\ bt = NewBTree
    /\ btModel = {}
    /\ btRes = Result("NewBTree", "", "", 0)
    /\ pc = [p \in procs |-> "idle"]
    /\ mu = NewRWMutex
    /\ local = [p \in procs |-> IdleLocal]
    /\ out = NoOutput

\* InsertRow, t.mu.Lock()
InsertLock(p, row) ==
    /\ pc[p] = "idle"
    /\ CanLock(mu)
    /\ mu' = Lock(mu, p)
    /\ pc' = [pc EXCEPT ![p] = "check"]
    /\ local' = [local EXCEPT ![p].args = <<row>>]
    /\ UNCHANGED <<tables, indexes, disk, res, bt, btModel, btRes, out>>

\* InsertRow, the arity, value and key checks; a failed check returns
InsertCheck(p) ==
    /\ pc[p] = "check"
    /\ LET e == InsertRow(tables["t"], local[p].args[1]).err
       IN IF e # ""
          THEN /\ mu' = Unlock(mu, p)
               /\ pc' = [pc EXCEPT ![p] = "done"]
               /\ local' = [local EXCEPT ![p].err = e]
          ELSE /\ mu' = mu
               /\ pc' = [pc EXCEPT ![p] = "append"]
               /\ local' = local
    /\ UNCHANGED <<tables, indexes, disk, res, bt, btModel, btRes, out>>

\* InsertRow, t.Rows = append(t.Rows, row) and the return
InsertAppend(p) ==
    /\ pc[p] = "append"
    /\ tables' = [tables EXCEPT !["t"].Rows = Append(@, local[p].args[1])]
    /\ mu' = Unlock(mu, p)
    /\ pc' = [pc EXCEPT ![p] = "done"]
    /\ local' = [local EXCEPT ![p].err = ""]
    /\ UNCHANGED <<indexes, disk, res, bt, btModel, btRes, out>>

\* two goroutines that each make one InsertRow call
NextInserts ==
    \E p \in Inserters :
        \/ \E row \in GoRows : InsertLock(p, row)
        \/ InsertCheck(p)
        \/ InsertAppend(p)

SpecInserts == InitGo(Inserters) /\ [][NextInserts]_vars

-----------------------------------------------------------------------------
(* Properties of concurrent calls *)

\* rows r1 and r2 fit the schema of t and hold the same non-null value in a
\* primary-key or unique column
CarrySameKey(t, r1, r2) ==
    /\ FitsSchema(r1, t.Schema)
    /\ FitsSchema(r2, t.Schema)
    /\ \E i \in 1..Len(t.Schema.Columns) :
          IsKeyColumn(t.Schema.Columns[i]) /\ r1[i] # Nil /\ r1[i] = r2[i]

\* the goroutines of procs whose InsertRow returned nil
Succeeded(procs) == {p \in procs : pc[p] = "done" /\ local[p].err = ""}

\* C12: once two concurrent InsertRow calls on one (empty) table have both
\* returned, if they carried the same non-null primary-key or unique value
\* exactly one has succeeded and the other has failed with a duplicate-key
\* error, and in every case the table holds the row of each successful call
\* and as many rows as calls succeeded.
C12_InsertsSerialized ==
    (\A p \in Inserters : p \in DOMAIN pc /\ pc[p] = "done")
        => LET t == tables["t"]
               r1 == local["ins1"].args[1]
               r2 == local["ins2"].args[1]
           IN /\ CarrySameKey(t, r1, r2)
                    => {local["ins1"].err, local["ins2"].err} = {"", "DuplicateKey"}
              /\ Len(t.Rows) = Cardinality(Succeeded(Inserters))
              /\ \A p \in Succeeded(Inserters) :
                    \E r \in 1..Len(t.Rows) : t.Rows[r] = local[p].args[1]

-----------------------------------------------------------------------------
(* Every storage call on table "t" from its own goroutine, and SaveAllTables *)
(* from another                                                            *)

\* SelectRows, t.mu.RLock()
SelectRLock(p) ==
    /\ pc[p] = "idle"
    /\ CanRLock(mu)
    /\ mu' = RLock(mu, p)
    /\ pc' = [pc EXCEPT ![p] = "copy"]
    /\ UNCHANGED <<tables, indexes, disk, res, bt, btModel, btRes, local, out>>

\* SelectRows, the copy of t.Rows and the return
SelectCopy(p) ==
    /\ pc[p] = "copy"
    /\ local' = [local EXCEPT ![p].ret = SelectRows(tables["t"])]
    /\ mu' = RUnlock(mu, p)
    /\ pc' = [pc EXCEPT ![p] = "done"]
    /\ UNCHANGED <<tables, indexes, disk, res, bt, btModel, btRes, out>>

\* UpdateRows, t.mu.Lock()
UpdateLock(p, where, updates) ==
    /\ pc[p] = "idle"
    /\ CanLock(mu)
    /\ mu' = Lock(mu, p)
    /\ pc' = [pc EXCEPT ![p] = "update"]
    /\ local' = [local EXCEPT ![p].args = <<where, updates>>, ![p].i = 1]
    /\ UNCHANGED <<tables, indexes, disk, res, bt, btModel, btRes, out>>

\* UpdateRows, one turn of the row loop (row i), or the return after the
\* last row or at the first value that fails
UpdateRow(p) ==
    /\ pc[p] = "update"
    /\ LET t == tables["t"]
           i == local[p].i
           where == local[p].args[1]
           u == ApplyUpdates(t.Schema, t.Rows[i], local[p].args[2], 1)
       IN IF i > Len(t.Rows)
          THEN /\ tables' = tables
               /\ mu' = Unlock(mu, p)
               /\ pc' = [pc EXCEPT ![p] = "done"]
               /\ local' = [local EXCEPT ![p].err = ""]
          ELSE IF ~condition(where, t.Rows[i], t.Schema)
          THEN /\ tables' = tables
               /\ mu' = mu
               /\ pc' = pc
               /\ local' = [local EXCEPT ![p].i = i + 1]
          ELSE IF u.err # ""
          THEN /\ tables' = [tables EXCEPT !["t"].Rows[i] = u.row]
               /\ mu' = Unlock(mu, p)
               /\ pc' = [pc EXCEPT ![p] = "done"]
               /\ local' = [local EXCEPT ![p].err = u.err]
          ELSE /\ tables' = [tables EXCEPT !["t"].Rows[i] = u.row]
               /\ mu' = mu
               /\ pc' = pc
               /\ local' = [local EXCEPT ![p].i = i + 1, ![p].n = @ + 1]
    /\ UNCHANGED <<indexes, disk, res, bt, btModel, btRes, out>>

\* DeleteRows, t.mu.Lock()
DeleteLock(p, where) ==
    /\ pc[p] = "idle"
    /\ CanLock(mu)
    /\ mu' = Lock(mu, p)
    /\ pc' = [pc EXCEPT ![p] = "delete"]
    /\ local' = [local EXCEPT ![p].args = <<where>>]
    /\ UNCHANGED <<tables, indexes, disk, res, bt, btModel, btRes, out>>

\* DeleteRows, the new row slice, its assignment to t.Rows and the return
DeleteAssign(p) ==
    /\ pc[p] = "delete"
    /\ LET r == DeleteRows(tables["t"], local[p].args[1])
       IN /\ tables' = WithTable(tables, "t", r.t)
          /\ local' = [local EXCEPT ![p].n = r.count]
    /\ mu' = Unlock(mu, p)
    /\ pc' = [pc EXCEPT ![p] = "done"]
    /\ UNCHANGED <<indexes, disk, res, bt, btModel, btRes, out>>

\* SaveAllTables, saveTable of "t": os.Create and Encode(table.Schema).  The
\* goroutine holds Storage.mu for reading, which no call on a table takes.
SaveCreate(p) ==
    /\ pc[p] = "idle"
    /\ disk' = WithFile(disk, "t", <<GobEncodeSchema(tables["t"].Schema)>>)
    /\ pc' = [pc EXCEPT ![p] = "rows"]
    /\ UNCHANGED <<tables, indexes, res, bt, btModel, btRes, mu, local, out>>

\* saveTable, Encode(table.Rows) and the return
SaveRows(p) ==
    /\ pc[p] = "rows"
    /\ disk' = WithFile(disk, "t", Append(disk["t"], GobEncodeRows(tables["t"].Rows)))
    /\ pc' = [pc EXCEPT ![p] = "done"]
    /\ UNCHANGED <<tables, indexes, res, bt, btModel, btRes, mu, local, out>>

NextGo ==
    \/ NextInserts
    \/ SelectRLock("sel")
    \/ SelectCopy("sel")
    \/ \E where \in StmtWhereInputs, updates \in GoUpdates : UpdateLock("upd", where, updates)
    \/ UpdateRow("upd")
    \/ \E where \in StmtWhereInputs : DeleteLock("del", where)
    \/ DeleteAssign("del")
    \/ SaveCreate("save")
    \/ SaveRows("save")

SpecGo == InitGo(Goroutines) /\ [][NextGo]_vars

\* the steps that write the rows of "t", and those that only read them
RowWriteSteps == {"check", "append", "update", "delete"}

RowReadSteps == {"copy", "rows"}

\* C13: a goroutine that is about to read or write the row sequence or the
\* row values of a table holds that table's mutex, for writing if it writes,
\* so that saveTable never reads the rows while InsertRow, UpdateRows or
\* DeleteRows is inside the table.
C13_RowsAccessedUnderLock ==
    \A p \in DOMAIN pc :
        /\ pc[p] \in RowWriteSteps => p \in mu.w
        /\ pc[p] \in RowReadSteps => p \in mu.w \cup mu.r
        /\ (p = "save" /\ pc[p] = "rows") => mu.w = {}

-----------------------------------------------------------------------------
(* Properties of predicates *)

\* the WHERE clause raises an evaluation error on some row of t
WhereFails(where, t) ==
    /\ where.type # "nil"
    /\ \E r \in 1..Len(t.Rows) : evaluateCondition(where, t.Rows[r], t.Schema).err # ""

\* C14: an UPDATE or DELETE statement whose WHERE clause raises an evaluation
\* error on some row of the table fails with an error.
C14_WhereErrorForwarded ==
    [][\A tn \in TableNames, where \in StmtWhereInputs :
          (/\ tn \in DOMAIN tables
           /\ WhereFails(where, tables[tn])
           /\ \/ \E set \in SetInputs : ExecUpdate(tn, set, where)
              \/ ExecDelete(tn, where))
          => res'.err # ""]_vars

-----------------------------------------------------------------------------
(* compareValues on its own *)

\* operands of every dynamic type a row or a literal can hold, nil included
CompareOperands ==
    {Nil, IntV(1), IntV(2), StrV("x"), StrV("y"), FloatV(1), FloatV(2), BoolV(TRUE)}

Operators == {"=", "!=", "<", ">", "<=", ">="}

InitCompare ==
    /\ tables = <<>>
    /\ indexes = NewManager
    /\ disk = <<>>
    /\ res = Result("NewStorage", "", "", 0)
    /\ bt = NewBTree
    /\ btModel = {}
    /\ btRes = Result("NewBTree", "", "", 0)
    /\ NoGoroutines
    /\ out = NoOutput

CallCompareValues(left, right, operator) ==
    /\ LET c == compareValues(left, right, operator)
       IN out' = [call |-> "compareValues", args |-> <<left, right, operator>>,
                  ret |-> <<c.ok>>, err |-> c.err]
    /\ UNCHANGED <<tables, indexes, disk, res, bt, btModel, btRes, pc, mu, local>>

NextCompare ==
    \E left \in CompareOperands, right \in CompareOperands, operator \in Operators :
        CallCompareValues(left, right, operator)

SpecCompare == InitCompare /\ [][NextCompare]_vars

\* C15: compareValues on two non-null operands of different dynamic types
\* fails with an incomparable-types error, whichever of the six operators.
C15_CrossTypeFails ==
    (/\ out.call = "compareValues"
     /\ out.args[1] # Nil
     /\ out.args[2] # Nil
     /\ out.args[1].k # out.args[2].k)
        => out.err = "IncomparableTypes"

-----------------------------------------------------------------------------
(* Lexer and parser: the ON and WHERE clauses of a SELECT with a JOIN *)

\* A statement's text is the sequence of the pieces the lexer cuts it into,
\* each known by its first character: a run of letters, digits and '_' that
\* starts with a letter, a number, a quoted string, or a single character.
Word(text) == [first |-> "letter", text |-> text, value |-> Nil]
Number(n) == [first |-> "digit", text |-> "", value |-> IntV(n)]
Quoted(str) == [first |-> "quote", text |-> "", value |-> StrV(str)]
Symbol(ch) == [first |-> ch, text |-> ch, value |-> Nil]

Token(type, literal, value) == [Type |-> type, Literal |-> literal, Value |-> value]

EOFToken == Token("EOF", "", Nil)

\* LookupIdent, on the keywords a SELECT can meet
LookupIdent(ident) ==
    IF ident \in {"SELECT", "FROM", "WHERE", "JOIN", "INNER", "ON", "AND", "OR",
                  "NOT", "NULL"}
    THEN ident
    ELSE "IDENT"

\* Lexer.NextToken on one piece: the switch on its first character.  There
\* is no case for '.', which falls to the default branch and, being neither
\* letter nor digit, becomes an ILLEGAL token.
NextToken(piece) ==
    IF piece.first = "*" THEN Token("ASTERISK", "*", Nil)
    ELSE IF piece.first = "," THEN Token("COMMA", ",", Nil)
    ELSE IF piece.first = "=" THEN Token("EQ", "=", Nil)
    ELSE IF piece.first = "!=" THEN Token("NEQ", "!=", Nil)
    ELSE IF piece.first = "<" THEN Token("LT", "<", Nil)
    ELSE IF piece.first = ">" THEN Token("GT", ">", Nil)
    ELSE IF piece.first = "<=" THEN Token("LTE", "<=", Nil)
    ELSE IF piece.first = ">=" THEN Token("GTE", ">=", Nil)
    ELSE IF piece.first = "quote" THEN Token("STRING", "", piece.value)
    ELSE IF piece.first = "letter" THEN Token(LookupIdent(piece.text), piece.text, Nil)
    ELSE IF piece.first = "digit" THEN Token("INT", "", piece.value)
    ELSE Token("ILLEGAL", piece.text, Nil)

\* the tokens of a text
Lex(text) == [i \in 1..Len(text) |-> NextToken(text[i])]

\* the token at position i, EOF past the end
TokenAt(toks, i) == IF i <= Len(toks) THEN toks[i] ELSE EOFToken

\* parsePrimary on the current token; an unexpected token is a parse error
parsePrimary(tok) ==
    IF tok.Type = "IDENT" THEN [expr |-> Identifier(tok.Literal), err |-> ""]
    ELSE IF tok.Type \in {"INT", "STRING"} THEN [expr |-> Literal(tok.Value), err |-> ""]
    ELSE IF tok.Type = "NULL" THEN [expr |-> NullLiteral, err |-> ""]
    ELSE [expr |-> NullLiteral, err |-> "ParseError"]

BinaryOperatorTokens == {"EQ", "NEQ", "LT", "GT", "LTE", "GTE", "AND", "OR"}

\* parseExpression with the current token at cur: the expression, the
\* position of its last token, and whether a parse error was recorded.  A
\* right operand that is itself a BinaryExpr is kept as the nested leaf the
\* evaluation rejects.
RECURSIVE parseExpression(_, _)
parseExpression(toks, cur) ==
    LET left == parsePrimary(TokenAt(toks, cur))
    IN IF TokenAt(toks, cur + 1).Type \in BinaryOperatorTokens
       THEN LET right == parseExpression(toks, cur + 2)
                leaf == IF right.expr.type = "BinaryExpr" THEN NestedExpr
                        ELSE right.expr.Left
            IN [expr |-> BinaryExpr(left.expr, TokenAt(toks, cur + 1).Literal, leaf),
                cur |-> right.cur,
                err |-> IF left.err # "" THEN left.err ELSE right.err]
       ELSE [expr |-> BareExpr(left.expr), cur |-> cur, err |-> left.err]

JoinClause(tableName, on) == [TableName |-> tableName, On |-> on]

SelectStmt(columns, tableName, joins, where, err) ==
    [Columns |-> columns, TableName |-> tableName, Joins |-> joins,
     Where |-> where, err |-> err]

NoSelect(err) == SelectStmt(<<>>, "", <<>>, NoWhere, err)

\* parseIdentifierList with the current token at cur: the names, and the
\* position of the last token read
RECURSIVE parseIdentifierList(_, _)
parseIdentifierList(toks, cur) ==
    LET here == IF TokenAt(toks, cur).Type = "IDENT"
                THEN <<TokenAt(toks, cur).Literal>> ELSE <<>>
    IN IF TokenAt(toks, cur + 1).Type = "COMMA"
       THEN LET rest == parseIdentifierList(toks, cur + 2)
            IN [list |-> here \o rest.list, cur |-> rest.cur]
       ELSE [list |-> here, cur |-> cur]

\* the JOIN loop of parseSelect with the current token at cur
RECURSIVE parseJoins(_, _)
parseJoins(toks, cur) ==
    IF TokenAt(toks, cur + 1).Type \notin {"INNER", "JOIN"}
    THEN [joins |-> <<>>, cur |-> cur, err |-> ""]
    ELSE LET atJoin == IF TokenAt(toks, cur + 1).Type = "INNER" THEN cur + 2 ELSE cur + 1
         IN IF TokenAt(toks, atJoin).Type # "JOIN"
               \/ TokenAt(toks, atJoin + 1).Type # "IDENT"
               \/ TokenAt(toks, atJoin + 2).Type # "ON"
            THEN [joins |-> <<>>, cur |-> cur, err |-> "ParseError"]
            ELSE LET on == parseExpression(toks, atJoin + 3)
                     rest == parseJoins(toks, on.cur)
                 IN [joins |-> <<JoinClause(TokenAt(toks, atJoin + 1).Literal, on.expr)>>
                                 \o rest.joins,
                     cur |-> rest.cur,
                     err |-> IF on.err # "" THEN on.err ELSE rest.err]

\* Parser.Parse on a SELECT: parseSelect, then the recorded errors.  Tokens
\* left after the last clause are not looked at.
parseSelect(toks) ==
    IF TokenAt(toks, 1).Type # "SELECT" THEN NoSelect("ParseError")
    ELSE LET columns == IF TokenAt(toks, 2).Type = "ASTERISK"
                        THEN [list |-> <<"*">>, cur |-> 2]
                        ELSE parseIdentifierList(toks, 2)
             from == columns.cur + 1
         IN IF TokenAt(toks, from).Type # "FROM" \/ TokenAt(toks, from + 1).Type # "IDENT"
            THEN NoSelect("ParseError")
            ELSE LET joins == parseJoins(toks, from + 1)
                     where == IF TokenAt(toks, joins.cur + 1).Type = "WHERE"
                              THEN parseExpression(toks, joins.cur + 2)
                              ELSE [expr |-> NoWhere, cur |-> joins.cur, err |-> ""]
                 IN IF joins.err # "" THEN NoSelect(joins.err)
                    ELSE IF where.err # "" THEN NoSelect(where.err)
                    ELSE SelectStmt(columns.list, TokenAt(toks, from + 1).Literal,
                                    joins.joins, where.expr, "")

-----------------------------------------------------------------------------
(* Executor: SELECT *)

\* a row of the nested loop with the two schemas it came from
CombinedRow(leftRow, rightRow, leftSchema, rightSchema) ==
    [leftRow |-> leftRow, rightRow |-> rightRow,
     leftSchema |-> leftSchema, rightSchema |-> rightSchema]

\* strings.Split(name, "."), on the names the statements use: the two
\* parts of a name with one '.' between a table name and a column name,
\* else the name itself
SplitTables == {"A", "B", "C"}
SplitColumns == {"id", "v", "w", "aid", "zz"}
DottedNames == {tn \o "." \o cn : tn \in SplitTables, cn \in SplitColumns}
SplitDotted ==
    [name \in DottedNames |->
        CHOOSE p \in SplitTables \X SplitColumns : p[1] \o "." \o p[2] = name]
Split(name) == IF name \in DottedNames THEN SplitDotted[name] ELSE <<name>>

\* the lookup of an unqualified name: the right schema first
getJoinColumnValueRightFirst(expr, row) ==
    IF expr.type = "Identifier"
    THEN LET l == GetColumnIndex(row.leftSchema, expr.Name)
             r == GetColumnIndex(row.rightSchema, expr.Name)
         IN IF r # 0 THEN [v |-> row.rightRow[r], err |-> ""]
            ELSE IF l # 0 THEN [v |-> row.leftRow[l], err |-> ""]
            ELSE [v |-> Nil, err |-> "NotFound"]
    ELSE IF expr.type = "Literal" THEN [v |-> expr.Value, err |-> ""]
    ELSE IF expr.type = "NullLiteral" THEN [v |-> Nil, err |-> ""]
    ELSE [v |-> Nil, err |-> "UnsupportedExpression"]

\* getJoinColumnValue: a name table.column is looked up in the schema of
\* the table it names; any other identifier is looked up in the left
\* schema, then in the right one.  (No identifier the lexer reads contains
\* a '.'; a statement built as a tree can.)  The table names of the
\* combined row are those of the two schemas.
getJoinColumnValue(expr, row) ==
    IF expr.type = "Identifier"
    THEN LET parts == Split(expr.Name)
         IN IF Len(parts) = 2
            THEN IF parts[1] = row.leftSchema.TableName
                 THEN LET idx == GetColumnIndex(row.leftSchema, parts[2])
                      IN IF idx = 0 THEN [v |-> Nil, err |-> "NotFound"]
                         ELSE [v |-> row.leftRow[idx], err |-> ""]
                 ELSE IF parts[1] = row.rightSchema.TableName
                 THEN LET idx == GetColumnIndex(row.rightSchema, parts[2])
                      IN IF idx = 0 THEN [v |-> Nil, err |-> "NotFound"]
                         ELSE [v |-> row.rightRow[idx], err |-> ""]
                 ELSE [v |-> Nil, err |-> "UnknownTable"]
            ELSE LET l == GetColumnIndex(row.leftSchema, expr.Name)
                     r == GetColumnIndex(row.rightSchema, expr.Name)
                 IN IF l # 0 THEN [v |-> row.leftRow[l], err |-> ""]
                    ELSE IF r # 0 THEN [v |-> row.rightRow[r], err |-> ""]
                    ELSE [v |-> Nil, err |-> "NotFound"]
    ELSE IF expr.type = "Literal" THEN [v |-> expr.Value, err |-> ""]
    ELSE IF expr.type = "NullLiteral" THEN [v |-> Nil, err |-> ""]
    ELSE [v |-> Nil, err |-> "UnsupportedExpression"]

evaluateJoinCondition(expr, row) ==
    IF expr.type = "BinaryExpr"
    THEN LET left == getJoinColumnValue(expr.Left, row)
             right == getJoinColumnValue(expr.Right, row)
         IN IF left.err # "" THEN [ok |-> FALSE, err |-> left.err]
            ELSE IF right.err # "" THEN [ok |-> FALSE, err |-> right.err]
            ELSE compareValues(left.v, right.v, expr.Operator)
    ELSE [ok |-> FALSE, err |-> "UnsupportedJoinCondition"]

\* the nested loop from the pair (i, j) on: the joined rows, or the first
\* error an ON or WHERE evaluation returns
RECURSIVE JoinFrom(_, _, _, _, _, _, _, _)
JoinFrom(leftRows, rightRows, leftSchema, rightSchema, on, where, i, j) ==
    IF i > Len(leftRows) THEN [rows |-> <<>>, err |-> ""]
    ELSE IF j > Len(rightRows)
    THEN JoinFrom(leftRows, rightRows, leftSchema, rightSchema, on, where, i + 1, 1)
    ELSE LET row == CombinedRow(leftRows[i], rightRows[j], leftSchema, rightSchema)
             onMatch == evaluateJoinCondition(on, row)
             whereMatch == IF where.type = "nil" THEN [ok |-> TRUE, err |-> ""]
                           ELSE evaluateJoinCondition(where, row)
             rest == JoinFrom(leftRows, rightRows, leftSchema, rightSchema,
                              on, where, i, j + 1)
         IN IF onMatch.err # "" THEN [rows |-> <<>>, err |-> onMatch.err]
            ELSE IF ~onMatch.ok THEN rest
            ELSE IF whereMatch.err # "" THEN [rows |-> <<>>, err |-> whereMatch.err]
            ELSE IF ~whereMatch.ok THEN rest
            ELSE IF rest.err # "" THEN rest
            ELSE [rows |-> <<leftRows[i] \o rightRows[j]>> \o rest.rows, err |-> ""]

\* the positions in a joined row of the columns of the select list: 0 for a
\* name no schema has, -1 for a name table.column of an unknown table
JoinColumnIndices(columns, leftSchema, rightSchema) ==
    IF columns = <<"*">>
    THEN [k \in 1..(Len(leftSchema.Columns) + Len(rightSchema.Columns)) |-> k]
    ELSE [k \in 1..Len(columns) |->
            LET parts == Split(columns[k])
                l == GetColumnIndex(leftSchema, columns[k])
                r == GetColumnIndex(rightSchema, columns[k])
            IN IF Len(parts) = 2
               THEN IF parts[1] = leftSchema.TableName
                    THEN GetColumnIndex(leftSchema, parts[2])
                    ELSE IF parts[1] = rightSchema.TableName
                    THEN LET idx == GetColumnIndex(rightSchema, parts[2])
                         IN IF idx = 0 THEN 0 ELSE Len(leftSchema.Columns) + idx
                    ELSE -1
               ELSE IF l # 0 THEN l
               ELSE IF r # 0 THEN Len(leftSchema.Columns) + r
               ELSE 0]

executeSelectWithJoin(tbls, stmt) ==
    IF Len(stmt.Joins) > 1 THEN [rows |-> <<>>, err |-> "MultipleJoins"]
    ELSE LET join == stmt.Joins[1]
         IN IF join.TableName \notin DOMAIN tbls THEN [rows |-> <<>>, err |-> "NotFound"]
            ELSE LET leftTable == tbls[stmt.TableName]
                     rightTable == tbls[join.TableName]
                     joined == JoinFrom(SelectRows(leftTable), SelectRows(rightTable),
                                        leftTable.Schema, rightTable.Schema,
                                        join.On, stmt.Where, 1, 1)
                     columnIndices == JoinColumnIndices(stmt.Columns, leftTable.Schema,
                                                        rightTable.Schema)
                 IN IF joined.err # "" THEN joined
                    ELSE IF \E k \in 1..Len(columnIndices) : columnIndices[k] <= 0
                    THEN [rows |-> <<>>,
                          err |-> LET k == CHOOSE k \in 1..Len(columnIndices) :
                                              /\ columnIndices[k] <= 0
                                              /\ \A j \in 1..(k - 1) : columnIndices[j] > 0
                                  IN IF columnIndices[k] = 0 THEN "NotFound"
                                     ELSE "UnknownTable"]
                    ELSE [rows |-> [n \in 1..Len(joined.rows) |->
                                      [k \in 1..Len(columnIndices) |->
                                          joined.rows[n][columnIndices[k]]]],
                          err |-> ""]

\* a filter that lets every row through
FilterFromKeepingAll(rows, where, schema, i) == [rows |-> rows, err |-> ""]

\* the rows of t the WHERE lets through, or the first evaluation error
RECURSIVE FilterFrom(_, _, _, _)
FilterFrom(rows, where, schema, i) ==
    IF i > Len(rows) THEN [rows |-> <<>>, err |-> ""]
    ELSE LET m == evaluateCondition(where, rows[i], schema)
             rest == FilterFrom(rows, where, schema, i + 1)
         IN IF m.err # "" THEN [rows |-> <<>>, err |-> m.err]
            ELSE IF rest.err # "" THEN rest
            ELSE [rows |-> (IF m.ok THEN <<rows[i]>> ELSE <<>>) \o rest.rows, err |-> ""]

executeSelect(tbls, stmt) ==
    IF stmt.TableName \notin DOMAIN tbls THEN [rows |-> <<>>, err |-> "NotFound"]
    ELSE IF Len(stmt.Joins) > 0 THEN executeSelectWithJoin(tbls, stmt)
    ELSE LET table == tbls[stmt.TableName]
             filtered == IF stmt.Where.type = "nil"
                         THEN [rows |-> SelectRows(table), err |-> ""]
                         ELSE FilterFrom(SelectRows(table), stmt.Where, table.Schema, 1)
             columnIndices == IF stmt.Columns = <<"*">>
                              THEN [k \in 1..Len(table.Schema.Columns) |-> k]
                              ELSE [k \in 1..Len(stmt.Columns) |->
                                      GetColumnIndex(table.Schema, stmt.Columns[k])]
         IN IF filtered.err # "" THEN filtered
            ELSE IF \E k \in 1..Len(columnIndices) : columnIndices[k] = 0
            THEN [rows |-> <<>>, err |-> "NotFound"]
            ELSE [rows |-> [n \in 1..Len(filtered.rows) |->
                              [k \in 1..Len(columnIndices) |->
                                  filtered.rows[n][columnIndices[k]]]],
                  err |-> ""]

-----------------------------------------------------------------------------
(* SELECT with an INNER JOIN, from the statement's text to the result *)

JoinLeft == "A"
JoinRight == "B"

\* A(id INTEGER PRIMARY KEY, v VARCHAR(2)) and B(aid INTEGER, w VARCHAR(2))
JoinSchemas ==
    [A |-> << ColumnDef("id", "INTEGER", 0, TRUE, FALSE, FALSE),
              ColumnDef("v", "VARCHAR", 2, FALSE, FALSE, FALSE) >>,
     B |-> << ColumnDef("aid", "INTEGER", 0, FALSE, FALSE, FALSE),
              ColumnDef("w", "VARCHAR", 2, FALSE, FALSE, FALSE) >>]

JoinRows ==
    [A |-> { <<IntV(1), StrV("x")>>, <<IntV(2), StrV("y")>> },
     B |-> { <<IntV(1), StrV("x")>>, <<IntV(3), StrV("y")>>, <<IntV(2), StrV("x")>> }]

\* A column as a statement names it: with its table in front or without
ColumnRef(tableName, columnName, qualified) ==
    [ref |-> "column", table |-> tableName, column |-> columnName,
     qualified |-> qualified, value |-> Nil]

ValueRef(v) == [ref |-> "value", table |-> "", column |-> "", qualified |-> FALSE, value |-> v]

Comparison(l, op, r) == [present |-> TRUE, l |-> l, op |-> op, r |-> r]

NoComparison == [present |-> FALSE, l |-> ValueRef(Nil), op |-> "", r |-> ValueRef(Nil)]

\* SELECT * FROM A INNER JOIN B ON <on> [WHERE <where>]
JoinQueries ==
    LET id(q) == ColumnRef("A", "id", q)
        v(q) == ColumnRef("A", "v", q)
        aid(q) == ColumnRef("B", "aid", q)
        w(q) == ColumnRef("B", "w", q)
    IN { [on |-> Comparison(id(q), "=", aid(q)), where |-> NoComparison] : q \in BOOLEAN }
       \cup { [on |-> Comparison(id(q), "=", aid(q)),
               where |-> Comparison(w(q), "=", ValueRef(StrV("x")))] : q \in BOOLEAN }
       \cup { [on |-> Comparison(aid(FALSE), "=", id(FALSE)),
               where |-> Comparison(v(FALSE), "!=", w(FALSE))],
              [on |-> Comparison(id(FALSE), "<", aid(FALSE)), where |-> NoComparison],
              [on |-> Comparison(id(FALSE), "=", ValueRef(IntV(1))), where |-> NoComparison] }

\* the text of a reference, of a comparison and of a query, cut where the
\* lexer cuts it
RefText(r) ==
    IF r.ref = "column"
    THEN IF r.qualified THEN <<Word(r.table), Symbol("."), Word(r.column)>>
         ELSE <<Word(r.column)>>
    ELSE IF r.value.k = "int" THEN <<Number(r.value.n)>>
    ELSE <<Quoted(r.value.s)>>

ComparisonText(c) == RefText(c.l) \o <<Symbol(c.op)>> \o RefText(c.r)

QueryText(q) ==
    <<Word("SELECT"), Symbol("*"), Word("FROM"), Word(JoinLeft),
      Word("INNER"), Word("JOIN"), Word(JoinRight), Word("ON")>>
    \o ComparisonText(q.on)
    \o (IF q.where.present THEN <<Word("WHERE")>> \o ComparisonText(q.where) ELSE <<>>)

InitJoin ==
    /\ LET a == executeCreateTable(<<>>, NewManager, <<>>, "A", JoinSchemas["A"], "")
           b == executeCreateTable(a.tables, a.indexes, a.disk, "B", JoinSchemas["B"], "")
       IN /\ tables = b.tables
          /\ indexes = b.indexes
          /\ disk = b.disk
    /\ res = Result("CREATE TABLE", "B", "", 0)
    /\ bt = NewBTree
    /\ btModel = {}
    /\ btRes = Result("NewBTree", "", "", 0)
    /\ NoGoroutines
    /\ out = NoOutput

JoinInsertRow(tableName, row) ==
    /\ Len(tables[tableName].Rows) < MaxRows
    /\ LET r == InsertRow(tables[tableName], row)
       IN /\ tables' = WithTable(tables, tableName, r.t)
          /\ out' = [call |-> "InsertRow", args |-> <<tableName, row>>,
                     ret |-> <<>>, err |-> r.err]
    /\ UNCHANGED <<indexes, disk, res, bt, btModel, btRes, pc, mu, local>>

\* the statement is lexed, parsed and, when it parses, executed
ExecSelectJoin(q) ==
    /\ LET stmt == parseSelect(Lex(QueryText(q)))
           r == IF stmt.err # "" THEN [rows |-> <<>>, err |-> stmt.err]
                ELSE executeSelect(tables, stmt)
       IN out' = [call |-> "SELECT", args |-> <<q>>, ret |-> r.rows, err |-> r.err]
    /\ UNCHANGED <<tables, indexes, disk, res, bt, btModel, btRes, pc, mu, local>>

NextJoin ==
    \/ \E tn \in {JoinLeft, JoinRight} : \E row \in JoinRows[tn] : JoinInsertRow(tn, row)
    \/ \E q \in JoinQueries : ExecSelectJoin(q)

SpecJoin == InitJoin /\ [][NextJoin]_vars

\* the value a reference denotes in a pair of rows
RefValue(r, leftRow, rightRow) ==
    IF r.ref = "value" THEN r.value
    ELSE IF r.table = JoinLeft
    THEN leftRow[GetColumnIndex(tables[JoinLeft].Schema, r.column)]
    ELSE rightRow[GetColumnIndex(tables[JoinRight].Schema, r.column)]

ComparisonTrue(c, leftRow, rightRow) ==
    LET l == RefValue(c.l, leftRow, rightRow)
        r == RefValue(c.r, leftRow, rightRow)
    IN IF c.op = "=" THEN l = r
       ELSE IF c.op = "!=" THEN l # r
       ELSE l.n < r.n

\* the pairs the query selects, as positions <<i, j>> in left-major order
RECURSIVE SelectedPairs(_, _, _)
SelectedPairs(q, i, j) ==
    IF i > Len(tables[JoinLeft].Rows) THEN <<>>
    ELSE IF j > Len(tables[JoinRight].Rows) THEN SelectedPairs(q, i + 1, 1)
    ELSE LET l == tables[JoinLeft].Rows[i]
             r == tables[JoinRight].Rows[j]
         IN (IF /\ ComparisonTrue(q.on, l, r)
                /\ (q.where.present => ComparisonTrue(q.where, l, r))
             THEN <<l \o r>> ELSE <<>>)
            \o SelectedPairs(q, i, j + 1)

\* C16: a SELECT * with one INNER JOIN succeeds and returns, for exactly
\* the pairs of a left and a right row on which ON and WHERE are true, the
\* left row's values followed by the right row's, left row first, then
\* right row.
C16_JoinReturnsMatchingPairs ==
    out.call = "SELECT" =>
        /\ out.err = ""
        /\ out.ret = SelectedPairs(out.args[1], 1, 1)

\* the same for the statements that name their columns without the table
C16_UnqualifiedJoin ==
    (out.call = "SELECT"
        /\ ~out.args[1].on.l.qualified /\ ~out.args[1].on.r.qualified
        /\ ~out.args[1].where.l.qualified) =>
        /\ out.err = ""
        /\ out.ret = SelectedPairs(out.args[1], 1, 1)

-----------------------------------------------------------------------------
(* Effect and frame of UpdateRows and DeleteRows *)

\* SELECT * FROM t
SelectAll == SelectStmt(<<"*">>, "t", <<>>, NoWhere, "")

\* the value the update map gives the column at position c, and whether it
\* names that column at all
Updated(schema, updates, c) ==
    \E i \in 1..Len(updates) : GetColumnIndex(schema, updates[i][1]) = c

NewValue(schema, updates, c) ==
    updates[CHOOSE i \in 1..Len(updates) : GetColumnIndex(schema, updates[i][1]) = c][2]

\* C17: on every table the calls lead to, an UpdateRows that returns no
\* error sets, in every row the predicate holds for (every row without a
\* predicate), each column the update map names to its new value; every
\* other column, every other row and the order of the rows are as before;
\* it returns the number of rows the predicate held for; and a SELECT that
\* follows returns the new values.
C17_UpdateSetsMatchingRows ==
    \A where \in WhereInputs, updates \in UpdateInputs :
        LET old == tables["t"]
            call == UpdateRows(old, where, updates)
            new == call.t
            matches(r) == condition(where, old.Rows[r], old.Schema)
            selected == executeSelect(WithTable(tables, "t", new), SelectAll)
        IN (/\ updates[1][1] # updates[Len(updates)][1] \/ Len(updates) = 1
            /\ call.err = "")
           => /\ new.Schema = old.Schema
              /\ Len(new.Rows) = Len(old.Rows)
              /\ \A r \in 1..Len(old.Rows) :
                    /\ Len(new.Rows[r]) = Len(old.Rows[r])
                    /\ \A c \in 1..Len(old.Rows[r]) :
                          new.Rows[r][c] =
                              IF matches(r) /\ Updated(old.Schema, updates, c)
                              THEN NewValue(old.Schema, updates, c)
                              ELSE old.Rows[r][c]
              /\ call.count = Cardinality({r \in 1..Len(old.Rows) : matches(r)})
              /\ selected.err = ""
              /\ selected.rows = new.Rows

\* an UpdateRows has changed one of two rows and left the other alone
C17_Witness ==
    /\ res.op = "UpdateRows"
    /\ res.err = ""
    /\ res.n = 1
    /\ Len(tables["t"].Rows) = 2
    /\ tables["t"].Rows[1] # tables["t"].Rows[2]

\* C18: on every table the calls lead to, DeleteRows leaves exactly the
\* rows the predicate is false for, in the order they had, and returns the
\* number of rows removed, the old row count minus the new one; without a
\* predicate it leaves no row and returns the old row count.
C18_DeleteLeavesNonMatching ==
    \A where \in WhereInputs :
        LET old == tables["t"]
            call == DeleteRows(old, where)
            Stays(row) == ~condition(where, row, old.Schema)
        IN /\ call.t.Schema = old.Schema
           /\ call.t.Rows = SelectSeq(old.Rows, Stays)
           /\ call.count = Len(old.Rows) - Len(call.t.Rows)
           /\ where.type = "nil" => (call.t.Rows = <<>> /\ call.count = Len(old.Rows))

\* a DeleteRows has removed one row and kept another
C18_Witness ==
    /\ res.op = "DeleteRows"
    /\ res.n = 1
    /\ Len(tables["t"].Rows) = 1

-----------------------------------------------------------------------------
(* DELETE twice *)

\* C19: a DELETE that repeats the successful DELETE just before it, same
\* table and same WHERE, succeeds, reports 0 rows affected and leaves the
\* rows of the table as they were.
C19_DeleteIdempotent ==
    [][\A tn \in TableNames, where \in StmtWhereInputs :
          (LastDelete(tn, where) /\ ExecDelete(tn, where))
          => /\ res'.err = ""
             /\ res'.n = 0
             /\ tables'[tn].Rows = tables[tn].Rows]_vars

\* a DELETE with a WHERE has been repeated on a table that still has rows
C19_Witness ==
    /\ out.call = "DELETE"
    /\ out.ret = <<"again">>
    /\ out.args[2].type # "nil"
    /\ res.err = ""
    /\ Len(tables[out.args[1]].Rows) >= 1

-----------------------------------------------------------------------------
(* The catalog: CreateTable and DropTable, with rows in the tables *)

\* the column definitions of ColumnDefs, a table whose two key columns have
\* one name, and a table whose only key column is the second
CatalogDefs ==
    ColumnDefs
    \cup { << ColumnDef("id", "INTEGER", 0, TRUE, FALSE, FALSE),
              ColumnDef("id", "INTEGER", 0, FALSE, TRUE, FALSE) >>,
           << ColumnDef("id", "INTEGER", 0, FALSE, FALSE, FALSE),
              ColumnDef("v", "VARCHAR", 2, FALSE, TRUE, FALSE) >> }

CatalogSchemas ==
    {BuildSchema(NewSchema(tn), defs, 1) : tn \in TableNames, defs \in CatalogDefs}

CatalogRows == {<<IntV(1), StrV("x")>>}

InitCatalog ==
    /\ LET s == NewStorage(<<>>)
       IN /\ tables = s.tables
          /\ indexes = s.indexes
    /\ disk = <<>>
    /\ res = Result("NewStorage", "", "", 0)
    /\ bt = NewBTree
    /\ btModel = {}
    /\ btRes = Result("NewBTree", "", "", 0)
    /\ NoGoroutines
    /\ out = NoOutput

\* where the I/O of a CreateTable may fail
SaveFaults == {"", "create", "encode"}

CallCreateTable(schema, fault) ==
    /\ LET c == CreateTable(tables, indexes, disk, schema, fault)
       IN /\ tables' = c.tables
          /\ indexes' = c.indexes
          /\ disk' = c.disk
          /\ res' = Result("CreateTable", schema.TableName, c.err, 0)
          /\ out' = [call |-> "CreateTable", args |-> <<schema.TableName>>, ret |-> <<>>,
                     err |-> c.err]
    /\ UNCHANGED <<bt, btModel, btRes, pc, mu, local>>

CallDropTable(tableName, fault) ==
    /\ LET r == DropTable(tables, indexes, disk, tableName, fault)
       IN /\ tables' = r.tables
          /\ indexes' = r.indexes
          /\ disk' = r.disk
          /\ res' = Result("DropTable", tableName, r.err, 0)
    /\ out' = NoOutput
    /\ UNCHANGED <<bt, btModel, btRes, pc, mu, local>>

CatalogInsertRow(tableName, row) ==
    /\ tableName \in DOMAIN tables
    /\ RowCount(tables, DOMAIN tables) < MaxRows
    /\ LET r == InsertRow(tables[tableName], row)
       IN /\ tables' = WithTable(tables, tableName, r.t)
          /\ res' = Result("InsertRow", tableName, r.err, 0)
    /\ out' = NoOutput
    /\ UNCHANGED <<indexes, disk, bt, btModel, btRes, pc, mu, local>>

NextCatalog ==
    \/ \E schema \in CatalogSchemas, fault \in SaveFaults : CallCreateTable(schema, fault)
    \/ \E tn \in TableNames, fault \in {"", "remove"} : CallDropTable(tn, fault)
    \/ \E tn \in TableNames, row \in CatalogRows : CatalogInsertRow(tn, row)

SpecCatalog == InitCatalog /\ [][NextCatalog]_vars

\* the names of the columns of schema that are flagged primary key or unique
KeyColumnNames(schema) ==
    {schema.Columns[i].Name : i \in {j \in 1..Len(schema.Columns) :
                                        schema.Columns[j].PrimaryKey
                                        \/ schema.Columns[j].Unique}}

\* the names of the columns of tableName the manager holds a tree for
IndexedColumns(idx, tableName) ==
    IF HasTableIndexes(idx, tableName) THEN DOMAIN idx[tableName] ELSE {}

\* C20: a CreateTable that succeeds registers, under the schema's name, a
\* table of that schema with no rows, and the manager then holds one empty
\* B-tree for each name of a column flagged primary key or unique and no
\* tree for any other column of the table; a CreateTable on a registered
\* name fails with already-exists and leaves tables and indexes as they were.
C20_CreateTableRegisters ==
    [][\A schema \in CatalogSchemas, fault \in SaveFaults :
          CallCreateTable(schema, fault)
          => /\ schema.TableName \in DOMAIN tables
                => /\ out'.err = "AlreadyExists"
                   /\ tables' = tables
                   /\ indexes' = indexes
             /\ out'.err = ""
                => /\ schema.TableName \in DOMAIN tables'
                   /\ tables'[schema.TableName] = Table(schema, <<>>)
                   /\ \A tn \in DOMAIN tables \ {schema.TableName} :
                         tn \in DOMAIN tables' /\ tables'[tn] = tables[tn]
                   /\ IndexedColumns(indexes', schema.TableName) = KeyColumnNames(schema)
                   /\ \A c \in KeyColumnNames(schema) :
                         indexes'[schema.TableName][c] = NewBTree]_vars

\* the same for a CreateTable that no failed CreateTable of that name came
\* before: the manager holds no tree of the name when the call starts
C20_CreateTableOnCleanManager ==
    [][\A schema \in CatalogSchemas, fault \in SaveFaults :
          (CallCreateTable(schema, fault) /\ out'.err = ""
            /\ IndexedColumns(indexes, schema.TableName) = {})
          => /\ tables'[schema.TableName] = Table(schema, <<>>)
             /\ IndexedColumns(indexes', schema.TableName) = KeyColumnNames(schema)
             /\ \A c \in KeyColumnNames(schema) :
                   indexes'[schema.TableName][c] = NewBTree]_vars

-----------------------------------------------------------------------------
(* Failures of CreateTable and DropTable *)

\* Storage.GetTable and Storage.TableExists
GetTable(tbls, tableName) ==
    IF tableName \in DOMAIN tbls THEN [table |-> tbls[tableName], err |-> ""]
    ELSE [table |-> Table(NewSchema(""), <<>>), err |-> "NotFound"]

TableExists(tbls, tableName) == tableName \in DOMAIN tbls

\* C21: when CreateTable fails because an index could not be created or the
\* table could not be saved, the name is not registered afterwards (GetTable
\* fails, TableExists is false) and the registered tables are those of
\* before the call.
C21_FailedCreateRolledBack ==
    [][(out'.call = "CreateTable" /\ out'.err \in {"IndexAlreadyExists", "IOError"})
          => /\ GetTable(tables', out'.args[1]).err = "NotFound"
             /\ ~TableExists(tables', out'.args[1])
             /\ tables' = tables]_vars

\* a CreateTable has failed on its file, after its trees were made, with
\* another table registered
C21_Witness ==
    /\ out.call = "CreateTable"
    /\ out.err = "IOError"
    /\ DOMAIN tables # {}
    /\ HasTableIndexes(indexes, out.args[1])

\* the schemas of CatalogSchemas called tableName that a new storage accepts
Creatable(tableName) ==
    {schema \in CatalogSchemas :
        /\ schema.TableName = tableName
        /\ CreateTable(<<>>, NewManager, <<>>, schema, "").err = ""}

\* what the claim says of a DropTable of tableName that led from the state
\* (tbls, idx, d) to the result r
DropTableAsClaimed(tbls, idx, d, tableName, r) ==
    /\ tableName \notin DOMAIN tbls
          => /\ r.err = "NotFound"
             /\ r.tables = tbls /\ r.indexes = idx /\ r.disk = d
    /\ tableName \in DOMAIN tbls
          => /\ tableName \notin DOMAIN r.tables
             /\ \A tn \in DOMAIN tbls \ {tableName} :
                   tn \in DOMAIN r.tables /\ r.tables[tn] = tbls[tn]
             /\ ~HasTableIndexes(r.indexes, tableName)
             /\ tableName \notin DOMAIN r.disk
             /\ \A schema \in Creatable(tableName) :
                   LET c == CreateTable(r.tables, r.indexes, r.disk, schema, "")
                   IN /\ c.err = ""
                      /\ c.tables[tableName] = Table(schema, <<>>)
                      /\ \A col \in DOMAIN c.indexes[tableName] :
                            c.indexes[tableName][col] = NewBTree

\* C22: DropTable of a name that is not registered fails with not-found and
\* changes nothing; DropTable of a registered name removes the table, the
\* trees of the table and the file of the table together, and a CreateTable
\* of that name then succeeds with no rows and empty trees.
C22_DropTableRemovesAll ==
    [][\A tn \in TableNames, fault \in {"", "remove"} :
          CallDropTable(tn, fault)
          => DropTableAsClaimed(tables, indexes, disk, tn,
                                [tables |-> tables', indexes |-> indexes',
                                 disk |-> disk', err |-> res'.err])]_vars

\* the same for the calls in which os.Remove does not fail
C22_DropTableWithoutFault ==
    [][\A tn \in TableNames :
          CallDropTable(tn, "")
          => DropTableAsClaimed(tables, indexes, disk, tn,
                                [tables |-> tables', indexes |-> indexes',
                                 disk |-> disk', err |-> res'.err])]_vars

-----------------------------------------------------------------------------
(* Effect and frame of InsertRow *)

\* no two columns of schema have one name
NamesDistinct(schema) ==
    \A i, j \in 1..Len(schema.Columns) :
        schema.Columns[i].Name = schema.Columns[j].Name => i = j

-----------------------------------------------------------------------------
(* INSERT with several value tuples *)

\* C24: an INSERT that returns an error has added none of its tuples: the
\* rows of every table are those of before the statement.
C24_InsertStatementAtomic ==
    [][(res'.op = "INSERT" /\ res'.err # "")
          => /\ DOMAIN tables' = DOMAIN tables
             /\ \A tn \in DOMAIN tables : tables'[tn].Rows = tables[tn].Rows]_vars

-----------------------------------------------------------------------------
(* What SelectRows returns, and the calls that come after it *)

-----------------------------------------------------------------------------
(* Insert of a key the tree holds *)

\* C26: on every tree the inserts lead to, Insert of a key the tree holds,
\* with another row position than the one stored, fails with DuplicateKey
\* and leaves the tree as it was: GetAll yields the same pairs and Search of
\* the key still yields the row position stored first.
C26_DuplicateInsertRejected ==
    LET all == GetAll(bt)
    IN \A e \in btModel :
          \A p \in Positions \ {e[2]} :
              LET r == Insert(bt, IntV(e[1]), p)
              IN /\ r.err = "DuplicateKey"
                 /\ GetAll(r.root) = all
                 /\ Search(r.root, IntV(e[1])) = [value |-> e[2], found |-> TRUE]

\* an Insert has been refused on a tree three levels high
C26_Witness ==
    /\ btRes.op = "Insert"
    /\ btRes.err = "DuplicateKey"
    /\ Height(bt) = 3

-----------------------------------------------------------------------------
(* A B-tree with keys of several types *)

TypedKeys == {IntV(1), IntV(2), StrV("x"), StrV("y"), FloatV(1), BoolV(TRUE)}

InitBTreeKeys ==
    /\ tables = <<>>
    /\ indexes = NewManager
    /\ disk = <<>>
    /\ res = Result("NewStorage", "", "", 0)
    /\ bt = NewBTree
    /\ btModel = {}
    /\ btRes = Result("NewBTree", "", "", 0)
    /\ NoGoroutines
    /\ out = NoOutput

\* Insert returns an error or nil
CallInsert(key, p) ==
    /\ LET r == Insert(bt, key, p)
       IN /\ bt' = r.root
          /\ btModel' = IF r.err = "" THEN btModel \cup {<<key, p>>} ELSE btModel
          /\ btRes' = Result("Insert", "", r.err, 0)
          /\ out' = [call |-> "Insert", args |-> <<key, p>>, ret |-> <<>>, err |-> r.err]
    /\ UNCHANGED <<tables, indexes, disk, res, pc, mu, local>>

\* Search returns a row position and a flag, and no error
CallSearch(key) ==
    /\ LET r == Search(bt, key)
       IN /\ btRes' = Result("Search", "", "", 0)
          /\ out' = [call |-> "Search", args |-> <<key>>,
                     ret |-> <<r.value, r.found>>, err |-> ""]
    /\ UNCHANGED <<tables, indexes, disk, res, bt, btModel, pc, mu, local>>

NextBTreeKeys ==
    \/ \E key \in TypedKeys, p \in Positions : CallInsert(key, p)
    \/ \E key \in TypedKeys : CallSearch(key)

SpecBTreeKeys == InitBTreeKeys /\ [][NextBTreeKeys]_vars

\* C27: an Insert or a Search with a key of another type than a key the tree
\* holds fails with an incomparable-types error; it neither reports a
\* duplicate key nor returns the row position of the key of the other type.
C27_MixedTypesRejected ==
    [][(out'.call \in {"Insert", "Search"}
          /\ \E e \in btModel : e[1].k # out'.args[1].k)
          => out'.err = "IncomparableTypes"]_vars

\* row holds null in every primary-key and unique column of schema
NullInKeyColumns(row, schema) ==
    \A i \in 1..Len(schema.Columns) : IsKeyColumn(schema.Columns[i]) => row[i] = Nil

\* C28: uniqueness is enforced among non-null values only: an InsertRow of a
\* row that fits the schema and holds null in its primary-key and unique
\* columns never fails with DuplicateKey, whatever rows the table holds (here
\* on tables whose column names are distinct), so that two rows with null in
\* a nullable primary-key column can both be inserted.
C28_NullNeverDuplicate ==
    NamesDistinct(tables["t"].Schema) =>
        \A row \in RowInputs :
            (FitsSchema(row, tables["t"].Schema) /\ NullInKeyColumns(row, tables["t"].Schema))
                => InsertRow(tables["t"], row).err # "DuplicateKey"

\* C29: with a null operand compareValues returns no error; null = null is
\* true, null = non-null is false, and each of !=, <, >, <=, >= with a null
\* operand is false.
C29_NullComparisons ==
    (/\ out.call = "compareValues"
     /\ (out.args[1] = Nil \/ out.args[2] = Nil))
        => /\ out.err = ""
           /\ out.ret[1] = (out.args[3] = "=" /\ out.args[1] = Nil /\ out.args[2] = Nil)

C29_Witness ==
    /\ out.call = "compareValues"
    /\ out.args[1] = Nil
    /\ out.args[2] = IntV(1)
    /\ out.args[3] = "!="
    /\ out.ret = <<FALSE>>
    /\ out.err = ""

-----------------------------------------------------------------------------
(* SELECT on one table, from the statement's text to the result *)

\* t(id INTEGER PRIMARY KEY, v VARCHAR(2))
SelectDefs ==
    << ColumnDef("id", "INTEGER", 0, TRUE, FALSE, FALSE),
       ColumnDef("v", "VARCHAR", 2, FALSE, FALSE, FALSE) >>

SelectTableRows ==
    { <<IntV(2), StrV("x")>>, <<IntV(1), StrV("y")>>, <<IntV(3), Nil>>, <<IntV(0), StrV("x")>> }

\* the column lists of the statements: "*", one column, both columns in the
\* other order, a column twice, a column the table does not have
SelectColumns ==
    { <<"*">>, <<"id">>, <<"v", "id">>, <<"v", "v">>, <<"zz">>, <<"id", "zz">> }

SelectWheres ==
    LET id == ColumnRef("t", "id", FALSE)
        v == ColumnRef("t", "v", FALSE)
    IN { NoComparison,
         Comparison(id, "=", ValueRef(IntV(1))),
         Comparison(v, "!=", ValueRef(StrV("y"))),
         Comparison(id, ">", ValueRef(IntV(1))),
         Comparison(ValueRef(StrV("x")), "=", v),
         Comparison(id, "<", ValueRef(StrV("x"))),
         Comparison(ColumnRef("t", "zz", FALSE), "=", ValueRef(IntV(1))) }

RECURSIVE ColumnListText(_, _)
ColumnListText(columns, k) ==
    IF k > Len(columns) THEN <<>>
    ELSE (IF k > 1 THEN <<Symbol(",")>> ELSE <<>>)
         \o <<IF columns[k] = "*" THEN Symbol("*") ELSE Word(columns[k])>>
         \o ColumnListText(columns, k + 1)

\* SELECT <columns> FROM t [WHERE <where>]
SelectText(columns, where) ==
    <<Word("SELECT")>> \o ColumnListText(columns, 1) \o <<Word("FROM"), Word("t")>>
    \o (IF where.present THEN <<Word("WHERE")>> \o ComparisonText(where) ELSE <<>>)

InitSelect ==
    /\ LET c == executeCreateTable(<<>>, NewManager, <<>>, "t", SelectDefs, "")
       IN /\ tables = c.tables
          /\ indexes = c.indexes
          /\ disk = c.disk
    /\ res = Result("CREATE TABLE", "t", "", 0)
    /\ bt = NewBTree
    /\ btModel = {}
    /\ btRes = Result("NewBTree", "", "", 0)
    /\ NoGoroutines
    /\ out = NoOutput

SelectInsertRow(row) ==
    /\ Len(tables["t"].Rows) < MaxRows
    /\ LET r == InsertRow(tables["t"], row)
       IN /\ tables' = WithTable(tables, "t", r.t)
          /\ out' = [call |-> "InsertRow", args |-> <<row>>, ret |-> <<>>, err |-> r.err]
    /\ UNCHANGED <<indexes, disk, res, bt, btModel, btRes, pc, mu, local>>

\* the statement is lexed, parsed and, when it parses, executed
ExecSelect(columns, where) ==
    /\ LET stmt == parseSelect(Lex(SelectText(columns, where)))
           r == IF stmt.err # "" THEN [rows |-> <<>>, err |-> stmt.err]
                ELSE executeSelect(tables, stmt)
       IN out' = [call |-> "SELECT", args |-> <<columns, where>>, ret |-> r.rows, err |-> r.err]
    /\ UNCHANGED <<tables, indexes, disk, res, bt, btModel, btRes, pc, mu, local>>

NextSelect ==
    \/ \E row \in SelectTableRows : SelectInsertRow(row)
    \/ \E columns \in SelectColumns, where \in SelectWheres : ExecSelect(columns, where)

SpecSelect == InitSelect /\ [][NextSelect]_vars

\* the value a reference of a WHERE denotes in a row of t
SelectRefValue(r, row) ==
    IF r.ref = "value" THEN r.value
    ELSE row[CHOOSE j \in 1..Len(SelectDefs) : SelectDefs[j].Name = r.column]

IsColumnOfT(name) == \E j \in 1..Len(SelectDefs) : SelectDefs[j].Name = name

\* evaluating the WHERE on the row ends in an error
WhereFailsOn(c, row) ==
    /\ c.present
    /\ \/ c.l.ref = "column" /\ ~IsColumnOfT(c.l.column)
       \/ c.r.ref = "column" /\ ~IsColumnOfT(c.r.column)
       \/ compareValues(SelectRefValue(c.l, row), SelectRefValue(c.r, row), c.op).err # ""

\* the WHERE is absent, or evaluates to true on the row
WhereTrueOn(c, row) ==
    c.present =>
        /\ ~WhereFailsOn(c, row)
        /\ compareValues(SelectRefValue(c.l, row), SelectRefValue(c.r, row), c.op).ok

\* the columns a column list asks for, by name
RequestedNames(columns) ==
    IF columns = <<"*">> THEN [j \in 1..Len(SelectDefs) |-> SelectDefs[j].Name] ELSE columns

\* C30: a SELECT without a join whose WHERE evaluates on every row returns,
\* in table order, exactly the rows on which the WHERE is true (every row
\* when there is no WHERE), each projected onto the requested columns in the
\* requested order ("*": every column in schema order); it fails, with
\* NotFound, when it asks for a column the schema does not have.
C30_SelectFiltersAndProjects ==
    out.call = "SELECT" =>
        LET names == RequestedNames(out.args[1])
            where == out.args[2]
            rows == tables["t"].Rows
            missing == \E k \in 1..Len(names) : ~IsColumnOfT(names[k])
            fails == \E i \in 1..Len(rows) : WhereFailsOn(where, rows[i])
            matching == {i \in 1..Len(rows) : WhereTrueOn(where, rows[i])}
        IN /\ missing => out.err # ""
           /\ (missing /\ ~fails) => out.err = "NotFound"
           /\ (~missing /\ ~fails) => out.err = ""
           /\ out.err = "" =>
                 \E f \in [1..Len(out.ret) -> 1..Len(rows)] :
                     /\ \A m, n \in 1..Len(out.ret) : m < n => f[m] < f[n]
                     /\ {f[n] : n \in 1..Len(out.ret)} = matching
                     /\ \A n \in 1..Len(out.ret) :
                           out.ret[n] = [k \in 1..Len(names) |->
                                           SelectRefValue(ColumnRef("t", names[k], FALSE),
                                                          rows[f[n]])]

C30_Witness ==
    /\ out.call = "SELECT"
    /\ out.err = ""
    /\ out.args[1] = <<"v", "id">>
    /\ out.args[2].present
    /\ Len(tables["t"].Rows) = 2
    /\ ~WhereTrueOn(out.args[2], tables["t"].Rows[1])
    /\ out.ret = << <<tables["t"].Rows[2][2], tables["t"].Rows[2][1]>> >>

-----------------------------------------------------------------------------
(* SELECT with comparisons chained by AND or OR *)

\* WHERE <first> [AND|OR <second>]
Chained(first, op, second) == [first |-> first, op |-> op, second |-> second]

ChainedWheres ==
    LET id == ColumnRef("t", "id", FALSE)
        v == ColumnRef("t", "v", FALSE)
        cs == { Comparison(id, "=", ValueRef(IntV(1))),
                Comparison(v, "=", ValueRef(StrV("x"))),
                Comparison(id, ">", ValueRef(IntV(1))) }
    IN { Chained(c, "", NoComparison) : c \in cs }
       \cup { Chained(c, op, d) : c \in cs, d \in cs, op \in {"AND", "OR"} }

ChainedText(w) ==
    <<Word("SELECT"), Symbol("*"), Word("FROM"), Word("t"), Word("WHERE")>>
    \o ComparisonText(w.first)
    \o (IF w.op # "" THEN <<Word(w.op)>> \o ComparisonText(w.second) ELSE <<>>)

\* the statement is lexed, parsed and, when it parses, executed
ExecSelectChained(w) ==
    /\ LET stmt == parseSelect(Lex(ChainedText(w)))
           r == IF stmt.err # "" THEN [rows |-> <<>>, err |-> stmt.err]
                ELSE executeSelect(tables, stmt)
       IN out' = [call |-> "SELECT", args |-> <<w>>, ret |-> r.rows, err |-> r.err]
    /\ UNCHANGED <<tables, indexes, disk, res, bt, btModel, btRes, pc, mu, local>>

NextChained ==
    \/ \E row \in SelectTableRows : SelectInsertRow(row)
    \/ \E w \in ChainedWheres : ExecSelectChained(w)

SpecChained == InitSelect /\ [][NextChained]_vars

\* C31: a WHERE of two comparisons chained with AND or OR, each of which
\* evaluates on the rows of the table, is evaluated to a boolean for every
\* row: the SELECT returns rows and no error, in particular not the error
\* of an unsupported expression.
C31_ChainedWhereEvaluated ==
    (out.call = "SELECT" /\ out.args[1].op \in {"AND", "OR"}) => out.err = ""

-----------------------------------------------------------------------------
(* INSERT statements with and without a column list *)

\* t(id INTEGER PRIMARY KEY, w INTEGER, v VARCHAR(2))
InsertDefs ==
    << ColumnDef("id", "INTEGER", 0, TRUE, FALSE, FALSE),
       ColumnDef("w", "INTEGER", 0, FALSE, FALSE, FALSE),
       ColumnDef("v", "VARCHAR", 2, FALSE, FALSE, FALSE) >>

InsertColumnLists ==
    { <<>>, <<"id">>, <<"w", "id">>, <<"v", "w", "id">>, <<"zz", "id">> }

\* expressions of a VALUES list: literals, NULL, an identifier, a comparison
ValueExprs ==
    { Literal(IntV(1)), Literal(IntV(2)), Literal(StrV("x")), NullLiteral,
      Identifier("id"), BinaryExpr(Literal(IntV(1)), "=", Literal(IntV(1))) }

\* value tuples that fit one of the column lists, and some that fit none
InsertTupleInputs ==
    { <<Literal(IntV(1))>>, <<Literal(IntV(2))>>, <<Identifier("id")>> }
    \cup { <<Literal(IntV(2)), e>> : e \in ValueExprs }
    \cup { <<Literal(IntV(1)), Literal(IntV(2)), Literal(StrV("x"))>>,
           <<Literal(StrV("x")), NullLiteral, Literal(IntV(2))>>,
           <<Literal(StrV("x")), Literal(IntV(1)), Literal(IntV(1))>> }

\* the first tuples of the statements with two tuples
InsertFirstTuples == { <<Literal(IntV(1))>>, <<Literal(IntV(1)), Literal(IntV(2))>> }

InitInsertStmt ==
    /\ LET c == executeCreateTable(<<>>, NewManager, <<>>, "t", InsertDefs, "")
       IN /\ tables = c.tables
          /\ indexes = c.indexes
          /\ disk = c.disk
    /\ res = Result("CREATE TABLE", "t", "", 0)
    /\ bt = NewBTree
    /\ btModel = {}
    /\ btRes = Result("NewBTree", "", "", 0)
    /\ NoGoroutines
    /\ out = NoOutput

\* INSERT INTO t [(columns)] VALUES values
ExecInsertStmt(columns, values) ==
    /\ Len(tables["t"].Rows) + Len(values) <= MaxRows
    /\ LET r == executeInsert(tables, disk, "t", columns, values)
       IN /\ tables' = r.tables
          /\ disk' = r.disk
          /\ out' = [call |-> "INSERT", args |-> <<columns, values>>,
                     ret |-> <<r.n>>, err |-> r.err]
    /\ UNCHANGED <<indexes, res, bt, btModel, btRes, pc, mu, local>>

NextInsertStmt ==
    \E columns \in InsertColumnLists :
        \/ \E tuple \in InsertTupleInputs : ExecInsertStmt(columns, <<tuple>>)
        \/ \E first \in InsertFirstTuples, second \in InsertTupleInputs :
              ExecInsertStmt(columns, <<first, second>>)

SpecInsertStmt == InitInsertStmt /\ [][NextInsertStmt]_vars

\* the names of the target columns of an INSERT with the given column list
TargetColumns(columns) ==
    IF columns = <<>> THEN [j \in 1..Len(InsertDefs) |-> InsertDefs[j].Name] ELSE columns

\* the row the statement means by a tuple: the value named for a column at
\* the column's position, null for every column that is not named
MeantRow(names, tuple) ==
    [j \in 1..Len(InsertDefs) |->
        IF \E i \in 1..Len(names) : names[i] = InsertDefs[j].Name
        THEN tuple[CHOOSE i \in 1..Len(names) : names[i] = InsertDefs[j].Name].Value
        ELSE Nil]

\* C32: an INSERT that succeeds has appended, for each value tuple in turn,
\* the row that holds each supplied value at the position of its column (of
\* the column list, or in schema order without one) and null elsewhere; the
\* statement fails when a tuple has another length than the target columns,
\* when a column of the list is not in the schema, and when a VALUES list
\* holds an identifier or a binary expression.
C32_InsertBuildsRows ==
    [][out'.call = "INSERT" =>
          LET names == TargetColumns(out'.args[1])
              values == out'.args[2]
          IN /\ (\E i \in 1..Len(names) : \A j \in 1..Len(InsertDefs) :
                                             InsertDefs[j].Name # names[i])
                   => out'.err # ""
             /\ (\E n \in 1..Len(values) : Len(values[n]) # Len(names)) => out'.err # ""
             /\ (\E n \in 1..Len(values) : \E i \in 1..Len(values[n]) :
                    values[n][i].type \notin {"Literal", "NullLiteral"}) => out'.err # ""
             /\ out'.err = "" =>
                   tables'["t"].Rows =
                       tables["t"].Rows \o [n \in 1..Len(values) |-> MeantRow(names, values[n])]
    ]_vars

C32_Witness ==
    /\ out.call = "INSERT"
    /\ out.err = ""
    /\ out.args[1] = <<"w", "id">>
    /\ out.args[2] = << <<Literal(IntV(2)), Literal(IntV(1))>> >>
    /\ tables["t"].Rows[Len(tables["t"].Rows)] = <<IntV(1), IntV(2), Nil>>
    /\ Len(tables["t"].Rows) = 2

-----------------------------------------------------------------------------
(* ValidateValue on its own *)

\* values of every runtime kind, nil included; texts of length 0, 1 and 3
ValidateValues ==
    {Nil, IntV(0), IntV(1), StrV(""), StrV("x"), StrV("yyy"), FloatV(1), Float32V(1),
     BoolV(TRUE), BoolV(FALSE)}

\* columns of the four data types, with and without NOT NULL, VARCHAR
\* without a maximum, of at most 2 and at most 3 characters
ValidateColumns ==
    { Column("c", dataType, size, FALSE, FALSE, notNull) :
        dataType \in {TypeInteger, TypeVarchar, TypeBoolean, TypeFloat},
        size \in {0, 2, 3}, notNull \in BOOLEAN }

CallValidateValue(value, col) ==
    /\ out' = [call |-> "ValidateValue", args |-> <<value, col>>, ret |-> <<>>,
               err |-> ValidateValue(value, col)]
    /\ UNCHANGED <<tables, indexes, disk, res, bt, btModel, btRes, pc, mu, local>>

NextValidate ==
    \E value \in ValidateValues, col \in ValidateColumns : CallValidateValue(value, col)

SpecValidate == InitCompare /\ [][NextValidate]_vars

\* C33: ValidateValue fails with NullNotAllowed on a null for a NOT NULL
\* column and accepts a null for any other column; a non-null value is
\* accepted exactly when its runtime kind is that of the column's data
\* type: an integer for INTEGER, a text within the declared maximum for
\* VARCHAR, a boolean for BOOLEAN, a float for FLOAT; an integer is not
\* taken for a float, nor a float for an integer, nor a text for a number.
C33_ValidateValueByKind ==
    out.call = "ValidateValue" =>
        LET value == out.args[1]
            col == out.args[2]
        IN IF value = Nil
           THEN out.err = (IF col.NotNull THEN "NullNotAllowed" ELSE "")
           ELSE (out.err = "") <=>
                   \/ col.DataType = TypeInteger /\ value.k = "int"
                   \/ /\ col.DataType = TypeVarchar
                      /\ value.k = "string"
                      /\ (col.Size = 0 \/ Len(value.s) <= col.Size)
                   \/ col.DataType = TypeBoolean /\ value.k = "bool"
                   \/ col.DataType = TypeFloat /\ value.k \in {"float32", "float64"}

C33_Witness ==
    /\ out.call = "ValidateValue"
    /\ out.args[1] = IntV(1)
    /\ out.args[2].DataType = TypeFloat
    /\ out.err = "TypeMismatch"

-----------------------------------------------------------------------------
(* Column names in a join: statements handed to the executor as trees *)

\* A(id INTEGER PRIMARY KEY, v VARCHAR(2)) and B(id INTEGER, w VARCHAR(2)):
\* both tables have a column id
NameSchemas ==
    [A |-> << ColumnDef("id", "INTEGER", 0, TRUE, FALSE, FALSE),
              ColumnDef("v", "VARCHAR", 2, FALSE, FALSE, FALSE) >>,
     B |-> << ColumnDef("id", "INTEGER", 0, FALSE, FALSE, FALSE),
              ColumnDef("w", "VARCHAR", 2, FALSE, FALSE, FALSE) >>]

NameRows ==
    [A |-> { <<IntV(1), StrV("x")>>, <<IntV(2), StrV("y")>> },
     B |-> { <<IntV(2), StrV("y")>>, <<IntV(1), StrV("x")>> }]

\* the name a reference is written with
RefName(r) == IF r.qualified THEN r.table \o "." \o r.column ELSE r.column

RefExpr(r) == IF r.ref = "column" THEN Identifier(RefName(r)) ELSE Literal(r.value)

ComparisonExpr(c) ==
    IF c.present THEN BinaryExpr(RefExpr(c.l), c.op, RefExpr(c.r)) ELSE NoWhere

\* SELECT <columns> FROM A INNER JOIN B ON <on> [WHERE <where>], with
\* qualified and unqualified names, names of a table that is not joined
\* and names the named table does not have
NameQueries ==
    LET col(tn, cn) == ColumnRef(tn, cn, TRUE)
        bare(cn) == ColumnRef("", cn, FALSE)
        ons == { Comparison(col("A", "id"), "=", col("B", "id")),
                 Comparison(bare("id"), "=", col("B", "id")),
                 Comparison(bare("id"), "=", bare("id")),
                 Comparison(bare("v"), "=", bare("w")),
                 Comparison(col("C", "id"), "=", col("B", "id")),
                 Comparison(col("A", "w"), "=", col("B", "w")) }
        wheres == { NoComparison,
                    Comparison(bare("id"), "=", ValueRef(IntV(1))),
                    Comparison(col("B", "id"), "=", ValueRef(IntV(1))),
                    Comparison(col("B", "v"), "=", ValueRef(StrV("x"))) }
        lists == { <<bare("*")>>, <<bare("id")>>, <<bare("w"), bare("id")>>,
                   <<col("B", "id"), col("A", "v")>>, <<col("C", "id")>>,
                   <<col("B", "v")>>, <<bare("zz")>> }
        on1 == Comparison(col("A", "id"), "=", col("B", "id"))
    IN { [columns |-> <<bare("*")>>, on |-> on, where |-> NoComparison] : on \in ons }
       \cup { [columns |-> <<bare("*")>>, on |-> on1, where |-> w] : w \in wheres }
       \cup { [columns |-> l, on |-> on1, where |-> NoComparison] : l \in lists }
       \cup { [columns |-> <<bare("id"), col("B", "id")>>,
               on |-> Comparison(bare("v"), "!=", bare("w")),
               where |-> Comparison(bare("id"), "=", ValueRef(IntV(1)))] }

NameStmt(q) ==
    SelectStmt([k \in 1..Len(q.columns) |-> RefName(q.columns[k])], "A",
               <<JoinClause("B", ComparisonExpr(q.on))>>, ComparisonExpr(q.where), "")

InitNames ==
    /\ LET a == executeCreateTable(<<>>, NewManager, <<>>, "A", NameSchemas["A"], "")
           b == executeCreateTable(a.tables, a.indexes, a.disk, "B", NameSchemas["B"], "")
       IN /\ tables = b.tables
          /\ indexes = b.indexes
          /\ disk = b.disk
    /\ res = Result("CREATE TABLE", "B", "", 0)
    /\ bt = NewBTree
    /\ btModel = {}
    /\ btRes = Result("NewBTree", "", "", 0)
    /\ NoGoroutines
    /\ out = NoOutput

NamesInsertRow(tableName, row) ==
    /\ Len(tables[tableName].Rows) < MaxRows
    /\ LET r == InsertRow(tables[tableName], row)
       IN /\ tables' = WithTable(tables, tableName, r.t)
          /\ out' = [call |-> "InsertRow", args |-> <<tableName, row>>,
                     ret |-> <<>>, err |-> r.err]
    /\ UNCHANGED <<indexes, disk, res, bt, btModel, btRes, pc, mu, local>>

\* Executor.Execute on the SELECT statement
ExecSelectNames(q) ==
    /\ LET r == executeSelect(tables, NameStmt(q))
       IN out' = [call |-> "SELECT", args |-> <<q>>, ret |-> r.rows, err |-> r.err]
    /\ UNCHANGED <<tables, indexes, disk, res, bt, btModel, btRes, pc, mu, local>>

NextNames ==
    \/ \E tn \in {"A", "B"} : \E row \in NameRows[tn] : NamesInsertRow(tn, row)
    \/ \E q \in NameQueries : ExecSelectNames(q)

SpecNames == InitNames /\ [][NextNames]_vars

HasColumn(tableName, columnName) ==
    \E j \in 1..Len(NameSchemas[tableName]) : NameSchemas[tableName][j].Name = columnName

\* the table in which a column reference is to be looked up, "" if in none:
\* a qualified name in the table it names, if that is A or B and has the
\* column; an unqualified name in A if A has the column, else in B if B has
\* it
ResolvesTo(r) ==
    IF r.qualified
    THEN IF r.table \in {"A", "B"} /\ HasColumn(r.table, r.column) THEN r.table ELSE ""
    ELSE IF HasColumn("A", r.column) THEN "A"
    ELSE IF HasColumn("B", r.column) THEN "B"
    ELSE ""

Unresolved(r) == r.ref = "column" /\ ResolvesTo(r) = ""

NameValue(r, leftRow, rightRow) ==
    IF r.ref = "value" THEN r.value
    ELSE IF ResolvesTo(r) = "" THEN Nil
    ELSE LET pos == CHOOSE j \in 1..Len(NameSchemas[ResolvesTo(r)]) :
                        NameSchemas[ResolvesTo(r)][j].Name = r.column
         IN IF ResolvesTo(r) = "A" THEN leftRow[pos] ELSE rightRow[pos]

NameComparisonTrue(c, leftRow, rightRow) ==
    c.present =>
        IF c.op = "=" THEN NameValue(c.l, leftRow, rightRow) = NameValue(c.r, leftRow, rightRow)
        ELSE NameValue(c.l, leftRow, rightRow) # NameValue(c.r, leftRow, rightRow)

\* the rows the query means, left row first, then right row
RECURSIVE NamedPairs(_, _, _)
NamedPairs(q, i, j) ==
    IF i > Len(tables["A"].Rows) THEN <<>>
    ELSE IF j > Len(tables["B"].Rows) THEN NamedPairs(q, i + 1, 1)
    ELSE LET l == tables["A"].Rows[i]
             r == tables["B"].Rows[j]
         IN (IF NameComparisonTrue(q.on, l, r) /\ NameComparisonTrue(q.where, l, r)
             THEN <<IF q.columns[1].column = "*" THEN l \o r
                    ELSE [k \in 1..Len(q.columns) |-> NameValue(q.columns[k], l, r)]>>
             ELSE <<>>)
            \o NamedPairs(q, i, j + 1)

\* C34: in a join an unqualified column name of the ON predicate, of the
\* WHERE predicate or of the select list is the left table's column when
\* the left schema has a column of that name, and the right table's only
\* otherwise; a name table.column is looked up in the named table only,
\* and the statement fails when that table is neither of the two joined
\* (or does not have the column).
C34_JoinNamesResolved ==
    out.call = "SELECT" =>
        LET q == out.args[1]
            rowsA == tables["A"].Rows
            rowsB == tables["B"].Rows
            listFails == \E k \in 1..Len(q.columns) :
                            q.columns[k].column # "*" /\ Unresolved(q.columns[k])
            onFails == Unresolved(q.on.l) \/ Unresolved(q.on.r)
            whereFails == q.where.present /\ (Unresolved(q.where.l) \/ Unresolved(q.where.r))
        IN /\ listFails => out.err # ""
           /\ (onFails /\ rowsA # <<>> /\ rowsB # <<>>) => out.err # ""
           /\ (whereFails /\ ~onFails
                 /\ \E i \in 1..Len(rowsA), j \in 1..Len(rowsB) :
                       NameComparisonTrue(q.on, rowsA[i], rowsB[j])) => out.err # ""
           /\ (q.on.l.table = "C" /\ rowsA # <<>> /\ rowsB # <<>>) => out.err = "UnknownTable"
           /\ (~listFails /\ ~onFails /\ ~whereFails) =>
                 /\ out.err = ""
                 /\ out.ret = NamedPairs(q, 1, 1)

\* SELECT id, B.id FROM A INNER JOIN B ON v != w WHERE id = 1 has returned
\* a row whose two ids differ
C34_Witness ==
    /\ out.call = "SELECT"
    /\ out.err = ""
    /\ Len(out.args[1].columns) = 2
    /\ out.args[1].where.present
    /\ ~out.args[1].where.l.qualified
    /\ \E n \in 1..Len(out.ret) : out.ret[n] = <<IntV(1), IntV(2)>>

-----------------------------------------------------------------------------
(* Shape of the B-tree after insertions *)

\* the node and every node below it: at most 2 * degree - 1 keys, at least
\* degree - 1 unless it is the root, a stored position per key, and in an
\* internal node one child more than keys
RECURSIVE NodeShaped(_, _)
NodeShaped(node, isRoot) ==
    /\ Len(node.keys) <= 7
    /\ isRoot \/ Len(node.keys) >= 3
    /\ Len(node.values) = Len(node.keys)
    /\ node.isLeaf \/ Len(node.children) = Len(node.keys) + 1
    /\ node.isLeaf \/ \A c \in 1..Len(node.children) : NodeShaped(node.children[c], FALSE)

\* C36: after Insert operations only, every node holds at most 7 keys, every
\* node but the root at least 3, every internal node has one child more than
\* keys, every node as many row positions as keys, and all leaves are at the
\* same depth.
C36_InsertKeepsShape ==
    /\ NodeShaped(bt, TRUE)
    /\ Cardinality(LeafDepths(bt, 1)) = 1

\* an Insert has returned on a tree of three levels whose root has more
\* than one key and one of whose leaves is full
C36_Witness ==
    /\ btRes.op = "Insert" /\ btRes.err = ""
    /\ Height(bt) = 3
    /\ Len(bt.keys) >= 2
    /\ \E c \in 1..Len(bt.children) :
          \E d \in 1..Len(bt.children[c].children) :
              Len(bt.children[c].children[d].keys) = 7

\* C37: the index manager holds indexes for registered tables only: no
\* tree is registered under a name that is not the name of a table, in
\* particular after a CreateTable that failed.
C37_IndexesOfRegisteredTables ==
    \A tn \in TableNames : IndexedColumns(indexes, tn) # {} => TableExists(tables, tn)

\* the update map names a column the schema does not have, or carries a
\* value its column does not take
BadUpdates(schema, updates) ==
    \E i \in 1..Len(updates) :
        LET c == GetColumnIndex(schema, updates[i][1])
        IN c = 0 \/ ValidateValue(updates[i][2], schema.Columns[c]) # ""

\* C39: an UpdateRows whose update map names a column absent from the schema
\* or carries a value invalid for its column fails, however many rows the
\* predicate holds for, also when it holds for none or the table is empty.
C39_BadUpdateAlwaysFails ==
    \A where \in WhereInputs, updates \in UpdateInputs :
        (/\ updates[1][1] # updates[Len(updates)][1] \/ Len(updates) = 1
         /\ BadUpdates(tables["t"].Schema, updates))
            => UpdateRows(tables["t"], where, updates).err # ""

-----------------------------------------------------------------------------
(* Statements run by concurrent sessions                                   *)
(*                                                                         *)
(* Each session runs the statements of its script in turn; a statement is  *)
(* the sequence of steps between the lock operations of the storage calls  *)
(* it makes.  The locks are Storage.mu ("s"), Manager.mu ("m"), BTree.mu   *)
(* of the tree of t.id ("b") and Table.mu of every table object.  In this  *)
(* specification tables holds Storage.tables as a map from name to table   *)
(* object and the objects themselves, so that a *Table a session obtained  *)
(* from GetTable stays the object it was when the name is dropped or       *)
(* registered again; an object nothing refers to any more is collected.    *)

Sessions == {"a", "b", "c"}

\* the scripts a session may run
Scripts ==
    << <<"CREATE">>, <<"DROP">>, <<"INSERT">>, <<"SELECT">>, <<"JOIN">>,
       <<"UPDATE">>, <<"DELETE">>, <<"INDEX">>,
       <<"DROP", "CREATE">>, <<"INSERT", "SELECT">> >>

\* the scripts of sessions a, b and c: every two scripts side by side (the
\* sessions are alike, so each pair is taken once), and a table dropped, or
\* dropped and created again, beside a statement that uses it and a third
\* that reads or empties it
Scenarios ==
    {<<Scripts[ij[1]], Scripts[ij[2]], <<>> >> :
        ij \in {x \in (1..Len(Scripts)) \X (1..Len(Scripts)) : x[1] <= x[2]}}
    \cup ({ <<"DROP">>, <<"DROP", "CREATE">> }
          \X { <<"INSERT", "SELECT">>, <<"JOIN">>, <<"INDEX">> }
          \X { <<"SELECT">>, <<"DELETE">> })

ObjectOrder == <<"o1", "o2", "o3", "o4">>

ObjectIds == {ObjectOrder[i] : i \in 1..Len(ObjectOrder)}

LockNames == {"s", "m", "b"} \cup ObjectIds

StmtSchema ==
    BuildSchema(NewSchema("t"),
                << ColumnDef("id", "INTEGER", 0, TRUE, FALSE, FALSE),
                   ColumnDef("v", "VARCHAR", 2, FALSE, FALSE, FALSE) >>, 1)

StmtRow == <<IntV(1), StrV("x")>>

StmtUpdates == << <<"v", StrV("y")>> >>

StmtOn == BinaryExpr(Identifier("id"), "=", Identifier("id"))

\* the table objects the map s.tables points to, by name
Registered(st) == [tn \in DOMAIN st.map |-> st.heap[st.map[tn]]]

\* the first object identifier the heap does not use
NewObject(heap) ==
    ObjectOrder[CHOOSE i \in 1..Len(ObjectOrder) :
                    /\ ObjectOrder[i] \notin DOMAIN heap
                    /\ \A j \in 1..(i - 1) : ObjectOrder[j] \in DOMAIN heap]

\* the objects the map or a local variable of a session refers to
Referenced(map, loc) ==
    {map[tn] : tn \in DOMAIN map} \cup ({loc[p].table : p \in DOMAIN loc} \ {""})

Collected(map, heap, loc) ==
    [map |-> map,
     heap |-> [o \in DOMAIN heap \cap Referenced(map, loc) |-> heap[o]]]

\* the lock operation a session is in, and the step it goes to on return
NoWant == [lock |-> "", mode |-> "", phase |-> "", then |-> ""]

Want(lock, mode, then) ==
    [lock |-> lock, mode |-> mode,
     phase |-> IF mode = "Lock" THEN "call" ELSE "wait", then |-> then]

IdleSession(script) ==
    [script |-> script, k |-> 1, want |-> NoWant, table |-> "", i |-> 0,
     left |-> <<>>, results |-> <<>>]

InitStmts ==
    /\ LET c == CreateTable(<<>>, NewManager, <<>>, StmtSchema, "")
       IN /\ tables = [map |-> [tn \in {"t"} |-> "o1"],
                       heap |-> [o \in {"o1"} |-> c.tables["t"]]]
          /\ indexes = c.indexes
          /\ disk = c.disk
    /\ res = Result("CreateTable", "t", "", 0)
    /\ bt = NewBTree
    /\ btModel = {}
    /\ btRes = Result("NewBTree", "", "", 0)
    /\ \E sc \in Scenarios :
          LET script == [p \in Sessions |->
                            IF p = "a" THEN sc[1] ELSE IF p = "b" THEN sc[2] ELSE sc[3]]
          IN /\ local = [p \in Sessions |-> IdleSession(script[p])]
             /\ pc = [p \in Sessions |->
                         IF script[p] = <<>> THEN "done" ELSE "idle"]
    /\ mu = [l \in LockNames |-> NewRWMutex]
    /\ out = NoOutput

Stmt(p) == local[p].script[local[p].k]

\* an INSERT of some session has returned success
InsertReturned ==
    \E p \in Sessions : \E i \in 1..Len(local[p].results) :
        local[p].results[i].stmt = "INSERT" /\ local[p].results[i].err = ""

\* an INSERT of some session has appended its row: InsertRow returned nil and
\* the statement is on its way to SaveAllTables, or has returned
InsertApplied ==
    \/ InsertReturned
    \/ \E p \in Sessions :
          /\ pc[p] \notin {"idle", "done"}
          /\ Stmt(p) = "INSERT"
          /\ pc[p] = "save" \/ local[p].want.then = "save"

\* the first lock a statement asks for: s.mu.Lock() in CreateTable and
\* DropTable, s.mu.RLock() in GetTable, m.mu.RLock() in Manager.Insert
FirstWant(stmt) ==
    IF stmt = "CREATE" THEN Want("s", "Lock", "create")
    ELSE IF stmt = "DROP" THEN Want("s", "Lock", "drop")
    ELSE IF stmt = "INDEX" THEN Want("m", "RLock", "lookup")
    ELSE Want("s", "RLock", "get")

\* the session's locals when its statement returns err and rows; late tells
\* whether an INSERT had appended its row by then
Returned(p, err, rows) ==
    [local[p] EXCEPT !.k = @ + 1, !.want = NoWant, !.table = "", !.i = 0,
                     !.left = <<>>,
                     !.results = Append(@, [stmt |-> Stmt(p), err |-> err,
                                            rows |-> rows,
                                            late |-> InsertApplied])]

\* where the session stands after its statement returned
AfterReturn(p) == IF local[p].k = Len(local[p].script) THEN "done" ELSE "idle"

\* the writers that announced themselves to the readers of a lock and wait
\* for them to leave
Announced(l) ==
    {q \in Sessions : /\ pc[q] = "locking"
                      /\ local[q].want.lock = l
                      /\ local[q].want.mode = "Lock"
                      /\ local[q].want.phase = "wait"}

\* the session starts its next statement and comes to the statement's
\* first lock operation
Begin(p) ==
    /\ pc[p] = "idle"
    /\ pc' = [pc EXCEPT ![p] = "locking"]
    /\ local' = [local EXCEPT ![p].want = FirstWant(Stmt(p))]
    /\ UNCHANGED <<tables, indexes, disk, res, bt, btModel, btRes, mu, out>>

\* Lock(), first half: the writer excludes the other writers and announces
\* itself, after which no new reader is let in
CallLock(p) ==
    /\ pc[p] = "locking"
    /\ local[p].want.mode = "Lock"
    /\ local[p].want.phase = "call"
    /\ mu[local[p].want.lock].w = {}
    /\ Announced(local[p].want.lock) = {}
    /\ local' = [local EXCEPT ![p].want.phase = "wait"]
    /\ UNCHANGED <<tables, indexes, disk, res, bt, btModel, btRes, pc, mu, out>>

\* Lock(), second half: the readers have left
AcquireLock(p) ==
    /\ pc[p] = "locking"
    /\ local[p].want.mode = "Lock"
    /\ local[p].want.phase = "wait"
    /\ CanLock(mu[local[p].want.lock])
    /\ mu' = [mu EXCEPT ![local[p].want.lock] = Lock(@, p)]
    /\ pc' = [pc EXCEPT ![p] = local[p].want.then]
    /\ local' = [local EXCEPT ![p].want = NoWant]
    /\ UNCHANGED <<tables, indexes, disk, res, bt, btModel, btRes, out>>

\* RLock(): no writer holds the lock or has announced itself
AcquireRLock(p) ==
    /\ pc[p] = "locking"
    /\ local[p].want.mode = "RLock"
    /\ CanRLock(mu[local[p].want.lock])
    /\ Announced(local[p].want.lock) = {}
    /\ mu' = [mu EXCEPT ![local[p].want.lock] = RLock(@, p)]
    /\ pc' = [pc EXCEPT ![p] = local[p].want.then]
    /\ local' = [local EXCEPT ![p].want = NoWant]
    /\ UNCHANGED <<tables, indexes, disk, res, bt, btModel, btRes, out>>

\* the position from i on of the next column CreateTable makes an index for,
\* 0 when there is none
RECURSIVE NextKeyColumn(_, _)
NextKeyColumn(schema, i) ==
    IF i > Len(schema.Columns) THEN 0
    ELSE IF schema.Columns[i].PrimaryKey \/ schema.Columns[i].Unique THEN i
    ELSE NextKeyColumn(schema, i + 1)

\* GetTable under s.mu.RLock(): the table object of the name, which the
\* statement then locks for writing (InsertRow, UpdateRows, DeleteRows) or
\* for reading (SelectRows).  A join keeps the left table for its schema
\* only, which no call changes.
GetTableBody(p) ==
    /\ pc[p] = "get"
    /\ mu' = [mu EXCEPT !["s"] = RUnlock(@, p)]
    /\ LET g == GetTable(tables.map, "t")
           writes == Stmt(p) \in {"INSERT", "UPDATE", "DELETE"}
           found == [local EXCEPT
                        ![p].table = g.table,
                        ![p].i = @ + 1,
                        ![p].want = Want(g.table,
                                         IF writes THEN "Lock" ELSE "RLock",
                                         IF writes THEN "write" ELSE "read")]
           failed == [local EXCEPT ![p] = Returned(p, g.err, <<>>)]
       IN IF g.err # ""
          THEN /\ local' = failed
               /\ pc' = [pc EXCEPT ![p] = AfterReturn(p)]
               /\ tables' = Collected(tables.map, tables.heap, failed)
          ELSE /\ local' = found
               /\ pc' = [pc EXCEPT ![p] = "locking"]
               /\ tables' = tables
    /\ UNCHANGED <<indexes, disk, res, bt, btModel, btRes, out>>

\* InsertRow, UpdateRows or DeleteRows under t.mu.Lock() of the table object
\* the statement holds; a statement that changed the table goes on to
\* SaveAllTables
TableWriteBody(p) ==
    /\ pc[p] = "write"
    /\ LET o == local[p].table
           t == tables.heap[o]
           r == IF Stmt(p) = "INSERT" THEN InsertRow(t, StmtRow)
                ELSE IF Stmt(p) = "UPDATE" THEN UpdateRows(t, NoWhere, StmtUpdates)
                ELSE [t |-> DeleteRows(t, NoWhere).t, err |-> ""]
           heap == [tables.heap EXCEPT ![o] = r.t]
           failed == [local EXCEPT ![p] = Returned(p, r.err, <<>>)]
       IN /\ mu' = [mu EXCEPT ![o] = Unlock(@, p)]
          /\ IF r.err # ""
             THEN /\ local' = failed
                  /\ pc' = [pc EXCEPT ![p] = AfterReturn(p)]
                  /\ tables' = Collected(tables.map, heap, failed)
             ELSE /\ local' = [local EXCEPT ![p].want = Want("s", "RLock", "save")]
                  /\ pc' = [pc EXCEPT ![p] = "locking"]
                  /\ tables' = [tables EXCEPT !.heap = heap]
    /\ UNCHANGED <<indexes, disk, res, bt, btModel, btRes, out>>

\* SelectRows under t.mu.RLock(): the rows are copied; a SELECT returns
\* them, a join keeps them and gets the right table, or joins them with the
\* left rows it kept
SelectRowsBody(p) ==
    /\ pc[p] = "read"
    /\ LET o == local[p].table
           rows == SelectRows(tables.heap[o])
           joined == JoinFrom(local[p].left, rows, StmtSchema, StmtSchema,
                              StmtOn, NoWhere, 1, 1)
           returned == [local EXCEPT ![p] =
                           IF Stmt(p) = "SELECT" THEN Returned(p, "", rows)
                           ELSE Returned(p, joined.err, joined.rows)]
       IN /\ mu' = [mu EXCEPT ![o] = RUnlock(@, p)]
          /\ IF Stmt(p) = "JOIN" /\ local[p].i = 1
             THEN /\ local' = [local EXCEPT ![p].left = rows,
                                            ![p].want = Want("s", "RLock", "get")]
                  /\ pc' = [pc EXCEPT ![p] = "locking"]
                  /\ tables' = tables
             ELSE /\ local' = returned
                  /\ pc' = [pc EXCEPT ![p] = AfterReturn(p)]
                  /\ tables' = Collected(tables.map, tables.heap, returned)
    /\ UNCHANGED <<indexes, disk, res, bt, btModel, btRes, out>>

\* SaveAllTables under s.mu.RLock(): every registered table is written to
\* its file, and the statement returns
SaveAllTablesBody(p) ==
    /\ pc[p] = "save"
    /\ mu' = [mu EXCEPT !["s"] = RUnlock(@, p)]
    /\ disk' = SaveAllTables(disk, Registered(tables)).disk
    /\ LET returned == [local EXCEPT ![p] = Returned(p, "", <<>>)]
       IN /\ local' = returned
          /\ pc' = [pc EXCEPT ![p] = AfterReturn(p)]
          /\ tables' = Collected(tables.map, tables.heap, returned)
    /\ UNCHANGED <<indexes, res, bt, btModel, btRes, out>>

\* CreateTable under s.mu.Lock(): a registered name is refused; otherwise a
\* new table object is registered and the index loop starts
CreateTableBody(p) ==
    /\ pc[p] = "create"
    /\ LET o == NewObject(tables.heap)
           i == NextKeyColumn(StmtSchema, 1)
           failed == [local EXCEPT ![p] = Returned(p, "AlreadyExists", <<>>)]
       IN IF TableExists(tables.map, "t")
          THEN /\ mu' = [mu EXCEPT !["s"] = Unlock(@, p)]
               /\ local' = failed
               /\ pc' = [pc EXCEPT ![p] = AfterReturn(p)]
               /\ tables' = tables
          ELSE /\ mu' = mu
               /\ tables' = [map |-> WithTable(tables.map, "t", o),
                             heap |-> WithTable(tables.heap, o, Table(StmtSchema, <<>>))]
               /\ IF i = 0
                  THEN /\ local' = local
                       /\ pc' = [pc EXCEPT ![p] = "persist"]
                  ELSE /\ local' = [local EXCEPT ![p].i = i,
                                                 ![p].want = Want("m", "Lock", "index")]
                       /\ pc' = [pc EXCEPT ![p] = "locking"]
    /\ UNCHANGED <<indexes, disk, res, bt, btModel, btRes, out>>

\* CreateIndex under m.mu.Lock(), called with s.mu held: when it fails the
\* table is taken out of the map again and CreateTable returns
CreateIndexBody(p) ==
    /\ pc[p] = "index"
    /\ LET c == CreateIndex(indexes, "t", StmtSchema.Columns[local[p].i].Name)
           i == NextKeyColumn(StmtSchema, local[p].i + 1)
           failed == [local EXCEPT ![p] = Returned(p, c.err, <<>>)]
       IN /\ indexes' = c.idx
          /\ IF c.err # ""
             THEN /\ mu' = [mu EXCEPT !["m"] = Unlock(@, p), !["s"] = Unlock(@, p)]
                  /\ local' = failed
                  /\ pc' = [pc EXCEPT ![p] = AfterReturn(p)]
                  /\ tables' = Collected(WithoutTable(tables.map, "t"),
                                         tables.heap, failed)
             ELSE /\ mu' = [mu EXCEPT !["m"] = Unlock(@, p)]
                  /\ tables' = tables
                  /\ IF i = 0
                     THEN /\ local' = local
                          /\ pc' = [pc EXCEPT ![p] = "persist"]
                     ELSE /\ local' = [local EXCEPT ![p].i = i,
                                                    ![p].want = Want("m", "Lock", "index")]
                          /\ pc' = [pc EXCEPT ![p] = "locking"]
    /\ UNCHANGED <<disk, res, bt, btModel, btRes, out>>

\* saveTable of the new table, still under s.mu; CreateTable returns and
\* executeCreateTable goes on to SaveAllTables
CreateSaveBody(p) ==
    /\ pc[p] = "persist"
    /\ disk' = saveTable(disk, Registered(tables)["t"], "").disk
    /\ mu' = [mu EXCEPT !["s"] = Unlock(@, p)]
    /\ local' = [local EXCEPT ![p].want = Want("s", "RLock", "save")]
    /\ pc' = [pc EXCEPT ![p] = "locking"]
    /\ UNCHANGED <<tables, indexes, res, bt, btModel, btRes, out>>

\* DropTable under s.mu.Lock(): an unknown name is refused; otherwise the
\* name is taken out of the map and DropTableIndexes is called
DropTableBody(p) ==
    /\ pc[p] = "drop"
    /\ LET failed == [local EXCEPT ![p] = Returned(p, "NotFound", <<>>)]
       IN IF ~TableExists(tables.map, "t")
          THEN /\ mu' = [mu EXCEPT !["s"] = Unlock(@, p)]
               /\ local' = failed
               /\ pc' = [pc EXCEPT ![p] = AfterReturn(p)]
               /\ tables' = tables
          ELSE /\ mu' = mu
               /\ local' = [local EXCEPT ![p].want = Want("m", "Lock", "dropIndexes")]
               /\ pc' = [pc EXCEPT ![p] = "locking"]
               /\ tables' = Collected(WithoutTable(tables.map, "t"),
                                      tables.heap, local)
    /\ UNCHANGED <<indexes, disk, res, bt, btModel, btRes, out>>

\* DropTableIndexes under m.mu.Lock(), called with s.mu held
DropTableIndexesBody(p) ==
    /\ pc[p] = "dropIndexes"
    /\ indexes' = DropTableIndexes(indexes, "t")
    /\ mu' = [mu EXCEPT !["m"] = Unlock(@, p)]
    /\ pc' = [pc EXCEPT ![p] = "remove"]
    /\ UNCHANGED <<tables, disk, res, bt, btModel, btRes, local, out>>

\* os.Remove of the table's file, still under s.mu; DropTable returns
DropRemoveBody(p) ==
    /\ pc[p] = "remove"
    /\ disk' = RemoveFile(disk, "t")
    /\ mu' = [mu EXCEPT !["s"] = Unlock(@, p)]
    /\ local' = [local EXCEPT ![p] = Returned(p, "", <<>>)]
    /\ pc' = [pc EXCEPT ![p] = AfterReturn(p)]
    /\ UNCHANGED <<tables, indexes, res, bt, btModel, btRes, out>>

\* Manager.Insert under m.mu.RLock(): without a tree for t.id it returns,
\* with one it calls the tree's Insert
ManagerInsertBody(p) ==
    /\ pc[p] = "lookup"
    /\ IF HasIndex(indexes, "t", "id")
       THEN /\ mu' = mu
            /\ local' = [local EXCEPT ![p].want = Want("b", "Lock", "tree")]
            /\ pc' = [pc EXCEPT ![p] = "locking"]
       ELSE /\ mu' = [mu EXCEPT !["m"] = RUnlock(@, p)]
            /\ local' = [local EXCEPT ![p] = Returned(p, "", <<>>)]
            /\ pc' = [pc EXCEPT ![p] = AfterReturn(p)]
    /\ UNCHANGED <<tables, indexes, disk, res, bt, btModel, btRes, out>>

\* BTree.Insert under bt.mu.Lock(), called with m.mu read-held
TreeInsertBody(p) ==
    /\ pc[p] = "tree"
    /\ LET r == Insert(indexes["t"]["id"], StmtRow[1], 0)
       IN /\ indexes' = [indexes EXCEPT !["t"]["id"] = r.root]
          /\ local' = [local EXCEPT ![p] = Returned(p, r.err, <<>>)]
    /\ mu' = [mu EXCEPT !["b"] = Unlock(@, p), !["m"] = RUnlock(@, p)]
    /\ pc' = [pc EXCEPT ![p] = AfterReturn(p)]
    /\ UNCHANGED <<tables, disk, res, bt, btModel, btRes, out>>

Step(p) ==
    \/ Begin(p)
    \/ CallLock(p)
    \/ AcquireLock(p)
    \/ AcquireRLock(p)
    \/ GetTableBody(p)
    \/ TableWriteBody(p)
    \/ SelectRowsBody(p)
    \/ SaveAllTablesBody(p)
    \/ CreateTableBody(p)
    \/ CreateIndexBody(p)
    \/ CreateSaveBody(p)
    \/ DropTableBody(p)
    \/ DropTableIndexesBody(p)
    \/ DropRemoveBody(p)
    \/ ManagerInsertBody(p)
    \/ TreeInsertBody(p)

NextStmts == \E p \in Sessions : Step(p)

SpecStmts == InitStmts /\ [][NextStmts]_vars

\* the scheduler runs some goroutine whenever one can take a step
SpecStmtsFair == SpecStmts /\ WF_vars(NextStmts)

Running(p) == pc[p] \notin {"idle", "done"}

\* the sessions that wait in a lock operation for a lock another session holds
Blocked ==
    {p \in Sessions : /\ pc[p] = "locking"
                      /\ \E q \in Sessions \ {p} :
                            q \in mu[local[p].want.lock].w \cup mu[local[p].want.lock].r}

\* C35: whatever the interleaving of CREATE TABLE, DROP TABLE, INSERT, SELECT
\* with or without join, UPDATE and DELETE (and of Manager.Insert), under a
\* fair scheduler every statement a session started returns: no session
\* waits for ever for the storage lock, a table lock, the manager lock or
\* the tree lock
C35_StatementsReturn == \A p \in Sessions : Running(p) ~> ~Running(p)

\* a session holds the storage lock and the manager lock at once while
\* the two others wait for the storage lock
C35_Witness ==
    \E p \in Sessions :
        /\ p \in mu["s"].w /\ p \in mu["m"].w
        /\ \A q \in Sessions \ {p} : q \in Blocked /\ local[q].want.lock = "s"

\* the statements that take rows or the table away or register a new table
Restructuring == {"DELETE", "DROP", "CREATE"}

\* every DELETE, DROP TABLE and CREATE TABLE that was started had returned
\* before any INSERT appended its row
RestructuringWasOver ==
    \A q \in Sessions :
        /\ Running(q) => Stmt(q) \notin Restructuring
        /\ \A i \in 1..Len(local[q].results) :
              local[q].results[i].stmt \in Restructuring => ~local[q].results[i].late

\* C38: the row of an INSERT that returned success (the row of its key, as
\* an UPDATE may have left it) is in the result of a SELECT the same session
\* ran afterwards on the table, when every DELETE, DROP TABLE and CREATE TABLE
\* had returned before the INSERT appended the row (a DROP TABLE and CREATE
\* TABLE that ran between the start of the INSERT and its append included)
C38_InsertNeverLost ==
    \A p \in Sessions :
        \A i \in 1..Len(local[p].results) : \A j \in (i + 1)..Len(local[p].results) :
            ( /\ local[p].results[i].stmt = "INSERT" /\ local[p].results[i].err = ""
              /\ local[p].results[j].stmt = "SELECT" /\ local[p].results[j].err = ""
              /\ RestructuringWasOver )
            => \E k \in 1..Len(local[p].results[j].rows) :
                  local[p].results[j].rows[k][1] = StmtRow[1]

====
